---- MODULE Spec2Model ----
(***************************************************************************)
(* Role-based task tracker: the identity/session lifecycle (registration,  *)
(* login with brute-force lockout, logout, OTP password recovery) and the  *)
(* task workflow (create, assign, admin update, developer and tester       *)
(* status, remarks, delete), modelled from app/services and app/routes.    *)
(*                                                                         *)
(* Time is the reading of datetime.utcnow() in minutes.  Several requests  *)
(* may read the same clock value; the clock advances only through Tick.    *)
(* Every request handler is modelled as one atomic action; the handlers    *)
(* that await the store twice (a read, then a write) are also modelled in  *)
(* two steps, with other requests running in between.                      *)
(***************************************************************************)
EXTENDS Integers, Sequences, FiniteSets, TLC

VARIABLES
    users,              \* users_collection, in insertion order; _id = position
    login_attempts,     \* login_attempts_collection, in insertion order
    password_resets,    \* password_resets_collection, in insertion order
    tasks,              \* task_collection, in insertion order
    next_task_id,       \* next ObjectId the store hands to an inserted task
    now,                \* datetime.utcnow(), in minutes
    ticks,              \* number of clock advances so far (bounded)
    resp,               \* the request handled at this instant and its response
    inflight            \* requests that have read the store and not yet written,
                        \* in the order of their reads

vars == <<users, login_attempts, password_resets, tasks, next_task_id, now, ticks, resp,
          inflight>>

-----------------------------------------------------------------------------
(* Bounds of the model *)

MaxLedger == 6          \* login_attempts entries
MaxTicks == 2           \* clock advances
MaxResets == 3          \* password_resets records
MaxTaskIds == 1         \* tasks ever created
MaxRemarks == 3         \* remarks held by one task
MaxInflight == 2        \* requests between their read and their write

-----------------------------------------------------------------------------
(* Program constants *)

LOCK_HOURS == 2
ACCESS_TOKEN_EXPIRE_HOURS == 24
OTP_EXPIRE_MINUTES == 10
LOGIN_WINDOW == 5
LOCK_THRESHOLD == 5
MIN_PASSWORD_LENGTH == 8
MinutesPerHour == 60

Null == -1              \* None for a timestamp
Nobody == "none"        \* None for an email / a status / a string field

Roles == {"admin", "manager", "developer", "tester"}

-----------------------------------------------------------------------------
(* Helpers *)

Min(S) == CHOOSE x \in S : \A y \in S : x <= y

Range(s) == {s[i] : i \in DOMAIN s}

RemoveAt(s, i) == SubSeq(s, 1, i - 1) \o SubSeq(s, i + 1, Len(s))

-----------------------------------------------------------------------------
(* Passwords: sequences of characters *)

UpperChars == {"W", "E", "A", "K"}
LowerChars == {"w", "e", "a", "k"}
DigitChars == {"1", "2"}
SpecialChars == {"!", "@", "#", "$", "%", "^", "&", "*", "(", ")", ",", ".",
                 "?", "\"", ":", "{", "}", "|", "<", ">"}

HasChar(password, class) == \E i \in DOMAIN password : password[i] \in class

\* validate_password_strength: the (bool, reason) pair it returns
validate_password_strength(password) ==
    IF Len(password) < MIN_PASSWORD_LENGTH
      THEN <<FALSE, "Password must be at least 8 characters long.">>
    ELSE IF ~HasChar(password, UpperChars)
      THEN <<FALSE, "Password must contain at least one uppercase letter.">>
    ELSE IF ~HasChar(password, LowerChars)
      THEN <<FALSE, "Password must contain at least one lowercase letter.">>
    ELSE IF ~HasChar(password, DigitChars)
      THEN <<FALSE, "Password must contain at least one digit.">>
    ELSE IF ~HasChar(password, SpecialChars)
      THEN <<FALSE, "Password must contain at least one special character.">>
    ELSE <<TRUE, "">>

\* Python truthiness of a tuple: any non-empty tuple is truthy
Truthy(tuple) == Len(tuple) > 0

\* hash_password / verify_password (bcrypt: verify succeeds exactly on the
\* password that was hashed)
hash_password(password) == [scheme |-> "bcrypt", of |-> password]

verify_password(plain_password, hashed_password) ==
    hashed_password = hash_password(plain_password)

Weak1 == <<"W", "e", "a", "k", "1">>
Weak1x == <<"W", "e", "a", "k", "1", "!">>
Weak11x == <<"W", "e", "a", "k", "1", "1", "!">>
Weak111x == <<"W", "e", "a", "k", "1", "1", "1", "!">>
weak111x == <<"w", "e", "a", "k", "1", "1", "1", "!">>
WEAK111x == <<"W", "E", "A", "K", "1", "1", "1", "!">>
Weakaaax == <<"W", "e", "a", "k", "a", "a", "a", "!">>
Weak1111 == <<"W", "e", "a", "k", "1", "1", "1", "1">>
Weak222x == <<"W", "e", "a", "k", "2", "2", "2", "!">>

Passwords == {Weak1, Weak1x, Weak11x, Weak111x, weak111x, WEAK111x, Weakaaax, Weak1111}

-----------------------------------------------------------------------------
(* Initial state: empty collections *)

NoResp == [op |-> "none"]

Init ==
    /\ users = <<>>
    /\ login_attempts = <<>>
    /\ password_resets = <<>>
    /\ tasks = <<>>
    /\ next_task_id = 1
    /\ now = 0
    /\ ticks = 0
    /\ resp = NoResp
    /\ inflight = <<>>

\* The clock advances by d minutes; the response of the last request has been
\* delivered by then
Tick(d) ==
    /\ ticks < MaxTicks
    /\ now' = now + d
    /\ ticks' = ticks + 1
    /\ resp' = NoResp
    /\ UNCHANGED <<users, login_attempts, password_resets, tasks, next_task_id, inflight>>

-----------------------------------------------------------------------------
(* Credential store *)

\* get_user_by_email: users_collection.find_one({"email": email});
\* 0 when no document matches
get_user_by_email(email) ==
    IF \E i \in DOMAIN users : users[i].email = email
      THEN Min({i \in DOMAIN users : users[i].email = email})
      ELSE 0

\* register_user(user); date_of_joining is optional in RegisterUser and
\* datetime.combine(None, ...) raises, which the handler maps to an internal error
RegisterPasswordRejected(password) ==
    ~Truthy(validate_password_strength(password))

\* the document insert_one stores for a registration
user_document(id, email, password, role) ==
    [_id |-> id, email |-> email, password |-> hash_password(password),
     role |-> role, locked_until |-> Null, password_changed_at |-> Null]

register_user(email, password, role, has_date_of_joining) ==
    LET request == [op |-> "register", email |-> email, password |-> password,
                    role |-> role]
    IN
    /\ IF get_user_by_email(email) # 0
         THEN /\ resp' = request @@ [success |-> FALSE,
                                     message |-> "User already exists with this email."]
              /\ UNCHANGED users
       ELSE IF RegisterPasswordRejected(password)
         THEN /\ resp' = request @@ [success |-> FALSE,
                                     message |-> "Password does not meet the required strength."]
              /\ UNCHANGED users
       ELSE IF ~has_date_of_joining
         THEN /\ resp' = request @@ [success |-> FALSE, message |-> "Internal Server Error"]
              /\ UNCHANGED users
       ELSE /\ users' = Append(users, user_document(Len(users) + 1, email, password, role))
            /\ resp' = request @@ [success |-> TRUE, message |-> "User registered successfully."]
    /\ UNCHANGED <<login_attempts, password_resets, tasks, next_task_id, now, ticks, inflight>>

\* register_user up to insert_one: the request has looked the email up, found
\* no user, and passed the other checks (a request that fails one is answered
\* at once, as in register_user)
register_user_read(email, password, role) ==
    /\ Len(inflight) < MaxInflight
    /\ get_user_by_email(email) = 0
    /\ ~RegisterPasswordRejected(password)
    /\ inflight' = Append(inflight, [op |-> "register", email |-> email,
                                     password |-> password, role |-> role])
    /\ UNCHANGED <<users, login_attempts, password_resets, tasks, next_task_id, now, ticks,
                   resp>>

\* register_user from insert_one: the document is inserted without another
\* look at the store; k is the position of the request among those in flight
register_user_write(k) ==
    LET request == inflight[k]
    IN
    /\ request.op = "register"
    /\ inflight' = RemoveAt(inflight, k)
    /\ users' = Append(users, user_document(Len(users) + 1, request.email,
                                            request.password, request.role))
    /\ resp' = request @@ [success |-> TRUE, message |-> "User registered successfully."]
    /\ UNCHANGED <<login_attempts, password_resets, tasks, next_task_id, now, ticks>>

-----------------------------------------------------------------------------
(* Session ledger and login *)

\* A stored user reference: str(_id) or the ObjectId itself; the store
\* compares values type-sensitively, so the two never match each other
StrId(id) == [type |-> "str", id |-> id]
ObjectId(id) == [type |-> "oid", id |-> id]
NoId == [type |-> "none", id |-> 0]

NoToken == [user_id |-> NoId, role |-> Nobody, exp |-> Null]

\* create_jwt_token: the signed claims {user_id, role, exp}; the signature is a
\* function of the claims and the process-wide secret
create_jwt_token(user_id, role) ==
    [user_id |-> user_id, role |-> role,
     exp |-> now + ACCESS_TOKEN_EXPIRE_HOURS * MinutesPerHour]

\* the document inserted for an unknown email
UnknownEmailAttempt(email) ==
    [user_id |-> NoId, email |-> email, timestamp |-> now, success |-> FALSE,
     token |-> NoToken, login_time |-> Null, expiry_time |-> Null,
     expired |-> "absent", logout_time |-> Null]

\* the document inserted for a wrong password
FailedAttempt(user) ==
    [user_id |-> StrId(user._id), email |-> Nobody, timestamp |-> now, success |-> FALSE,
     token |-> NoToken, login_time |-> Null, expiry_time |-> Null,
     expired |-> "absent", logout_time |-> Null]

\* the document inserted for a successful login
SuccessfulAttempt(user, token) ==
    [user_id |-> ObjectId(user._id), email |-> user.email, timestamp |-> Null, success |-> TRUE,
     token |-> token, login_time |-> now,
     expiry_time |-> now + ACCESS_TOKEN_EXPIRE_HOURS * MinutesPerHour,
     expired |-> "false", logout_time |-> Null]

\* find({"user_id": str(_id)}): positions of the matching documents
AttemptsOf(user) ==
    {i \in DOMAIN login_attempts : login_attempts[i].user_id = StrId(user._id)}

\* .sort("timestamp", -1).limit(5): every window of documents the store may
\* return; a document without the field sorts as null (last when descending)
\* and ties come in any order (equal documents are interchangeable)
RECURSIVE SortedLimit(_, _)
SortedLimit(M, k) ==
    IF k = 0 \/ M = {}
      THEN {<<>>}
      ELSE LET top == {i \in M : \A j \in M :
                          login_attempts[i].timestamp >= login_attempts[j].timestamp}
               first == {i \in top : \A j \in top :
                          login_attempts[j] = login_attempts[i] => i <= j}
           IN UNION {{<<i>> \o rest : rest \in SortedLimit(M \ {i}, k - 1)} : i \in first}

\* a query that finds no attempt of the user
no_attempts_found(user) == {<<>>}

last_attempts(user) == SortedLimit(AttemptsOf(user), LOGIN_WINDOW)

\* a count that never reaches the threshold, so that every login goes on to
\* the password
consecutive_failures_below_threshold(window) ==
    LET successes == {i \in DOMAIN window : login_attempts[window[i]].success}
        counted == IF successes = {} THEN Len(window) ELSE Min(successes) - 1
    IN IF counted >= LOCK_THRESHOLD THEN LOCK_THRESHOLD - 1 ELSE counted

\* the loop of login_user: failures counted from the newest, up to the first success
consecutive_failures(window) ==
    LET successes == {i \in DOMAIN window : login_attempts[window[i]].success}
    IN IF successes = {} THEN Len(window) ELSE Min(successes) - 1

\* a lock of LOCK_HOURS minutes instead of hours
lock_time_in_minutes(t) == t + LOCK_HOURS

\* locked_until written when the threshold is reached
lock_time(t) == t + LOCK_HOURS * MinutesPerHour

\* a login that goes on to the window whatever locked_until says
lock_not_looked_at(user) == FALSE

\* the lock test of login_user: locked_until set and in the future
is_locked(user) == user.locked_until # Null /\ now < user.locked_until

InvalidCredentials ==
    [success |-> FALSE, message |-> "Invalid credentials", action |-> Nobody,
     until |-> Null, token |-> NoToken]

AccountLockedUntil(locked_until) ==
    [success |-> FALSE, message |-> "Account locked until. Please reset your password.",
     action |-> "reset_password", until |-> locked_until, token |-> NoToken]

AccountLockedNow ==
    [success |-> FALSE,
     message |-> "Account locked due to 5 consecutive failed attempts. Please reset your password.",
     action |-> "reset_password", until |-> Null, token |-> NoToken]

LoginSuccessful(token) ==
    [success |-> TRUE, message |-> "Login successful", action |-> Nobody,
     until |-> Null, token |-> token]

\* the response of the unknown-email branch
unknown_email_response == InvalidCredentials

\* a wrong-password response that names the password as the cause
wrong_password_response_leaky ==
    [InvalidCredentials EXCEPT !.message = "Incorrect password"]

\* the response of the wrong-password branch
wrong_password_response == InvalidCredentials

login_user(email, password) ==
    LET request == [op |-> "login", email |-> email, password |-> password]
        uid == get_user_by_email(email)
    IN
    /\ UNCHANGED <<password_resets, tasks, next_task_id, now, ticks, inflight>>
    /\ IF uid = 0
         THEN /\ Len(login_attempts) < MaxLedger
              /\ login_attempts' = Append(login_attempts, UnknownEmailAttempt(email))
              /\ resp' = request @@ unknown_email_response @@ [pw_checked |-> FALSE]
              /\ UNCHANGED users
       ELSE IF is_locked(users[uid])
         THEN /\ resp' = request @@ AccountLockedUntil(users[uid].locked_until)
                                 @@ [pw_checked |-> FALSE]
              /\ UNCHANGED <<users, login_attempts>>
       ELSE \E window \in last_attempts(users[uid]) :
              IF consecutive_failures(window) >= LOCK_THRESHOLD
                THEN /\ users' = [users EXCEPT ![uid].locked_until = lock_time(now)]
                     /\ resp' = request @@ AccountLockedNow @@ [pw_checked |-> FALSE]
                     /\ UNCHANGED login_attempts
              ELSE IF ~verify_password(password, users[uid].password)
                THEN /\ Len(login_attempts) < MaxLedger
                     \* a lock that has run out was cleared on the way
                     /\ users' = [users EXCEPT ![uid].locked_until = Null]
                     /\ login_attempts' = Append(login_attempts, FailedAttempt(users[uid]))
                     /\ resp' = request @@ wrong_password_response @@ [pw_checked |-> TRUE]
              ELSE LET token == create_jwt_token(StrId(uid), users[uid].role)
                   IN /\ Len(login_attempts) < MaxLedger
                      /\ users' = [users EXCEPT ![uid].locked_until = Null]
                      /\ login_attempts' =
                            Append(login_attempts, SuccessfulAttempt(users[uid], token))
                      /\ resp' = request @@ LoginSuccessful(token) @@ [pw_checked |-> TRUE]

\* the login requests of one user that run at the same time
ConcurrentLogins == {"first", "second"}

\* login_user up to verify_password: the user is looked up, a running lock or
\* a full window of failures is answered at once, a lock that has run out is
\* cleared, and the request goes on with the user document it read
login_user_read(email, password) ==
    LET request == [op |-> "login", email |-> email, password |-> password]
        uid == get_user_by_email(email)
    IN
    /\ uid # 0
    /\ UNCHANGED <<login_attempts, password_resets, tasks, next_task_id, now, ticks>>
    /\ IF is_locked(users[uid])
         THEN /\ resp' = request @@ AccountLockedUntil(users[uid].locked_until)
                                 @@ [pw_checked |-> FALSE]
              /\ UNCHANGED <<users, inflight>>
       ELSE \E window \in last_attempts(users[uid]) :
              IF consecutive_failures(window) >= LOCK_THRESHOLD
                THEN /\ users' = [users EXCEPT ![uid].locked_until = lock_time(now)]
                     /\ resp' = request @@ AccountLockedNow @@ [pw_checked |-> FALSE]
                     /\ UNCHANGED inflight
                ELSE /\ Len(inflight) < Cardinality(ConcurrentLogins)
                     /\ users' = [users EXCEPT ![uid].locked_until = Null]
                     /\ inflight' = Append(inflight, request @@ [user |-> users[uid]])
                     /\ UNCHANGED resp

\* login_user from verify_password: the password is verified against the
\* document read earlier and the attempt is recorded; k is the position of
\* the request among those in flight
login_user_write(k) ==
    LET request == inflight[k]
        echo == [op |-> "login", email |-> request.email, password |-> request.password]
        token == create_jwt_token(StrId(request.user._id), request.user.role)
    IN
    /\ request.op = "login"
    /\ inflight' = RemoveAt(inflight, k)
    /\ UNCHANGED <<users, password_resets, tasks, next_task_id, now, ticks>>
    /\ IF ~verify_password(request.password, request.user.password)
         THEN /\ login_attempts' = Append(login_attempts, FailedAttempt(request.user))
              /\ resp' = echo @@ wrong_password_response @@ [pw_checked |-> TRUE]
         ELSE /\ login_attempts' = Append(login_attempts, SuccessfulAttempt(request.user, token))
              /\ resp' = echo @@ LoginSuccessful(token) @@ [pw_checked |-> TRUE]

\* a lookup that also finds the entries already marked expired
logout_match_expired_too(token) ==
    {i \in DOMAIN login_attempts : login_attempts[i].token = token}

\* POST /users/logout with a bearer token
logout_match(token) ==
    {i \in DOMAIN login_attempts :
        login_attempts[i].token = token /\ login_attempts[i].expired = "false"}

logout(token) ==
    LET request == [op |-> "logout", token |-> token]
    IN
    /\ UNCHANGED <<users, password_resets, tasks, next_task_id, now, ticks, inflight>>
    /\ IF logout_match(token) = {}
         THEN /\ resp' = request @@ [success |-> FALSE, status |-> 401,
                                     message |-> "Token already expired or invalid"]
              /\ UNCHANGED login_attempts
         ELSE LET i == Min(logout_match(token))
              IN /\ login_attempts' = [login_attempts EXCEPT ![i].expired = "true",
                                                            ![i].logout_time = now]
                 /\ resp' = request @@ [success |-> TRUE, status |-> 200,
                                        message |-> "Successfully logged out"]

\* jwt.decode checks the signature: only claims signed with the secret pass
signature_valid(token) == token.user_id.type = "str"

\* a decoding that also refuses a token whose ledger entry is marked expired
decode_jwt_token_checking_ledger(token) ==
    IF ~signature_valid(token)
      THEN [success |-> FALSE, message |-> "Invalid token"]
    ELSE IF token.exp <= now
           \/ \E i \in DOMAIN login_attempts :
                 login_attempts[i].token = token /\ login_attempts[i].expired = "true"
      THEN [success |-> FALSE, message |-> "Token expired"]
    ELSE [success |-> TRUE, message |-> "ok"]

\* decode_jwt_token: signature, then the exp claim against the clock
decode_jwt_token(token) ==
    IF ~signature_valid(token)
      THEN [success |-> FALSE, message |-> "Invalid token"]
    ELSE IF token.exp <= now
      THEN [success |-> FALSE, message |-> "Token expired"]
    ELSE [success |-> TRUE, message |-> "ok"]

\* get_current_user on a bearer token: the identity is the token's payload
get_current_user(token) ==
    LET request == [op |-> "verify", token |-> token]
        payload == decode_jwt_token(token)
    IN
    /\ UNCHANGED <<users, login_attempts, password_resets, tasks, next_task_id, now, ticks,
                   inflight>>
    /\ IF ~payload.success
         THEN resp' = request @@ [success |-> FALSE, status |-> 401,
                                  message |-> "Invalid or expired token"]
         ELSE resp' = request @@ [success |-> TRUE, status |-> 200, message |-> "ok"]

-----------------------------------------------------------------------------
(* OTP recovery *)

\* otp_expiry_time
otp_expiry_time == now + OTP_EXPIRE_MINUTES

\* the filter of cleanup_expired_otps: {"expires_at": {"$lt": utcnow()}}
otp_purged(record) == record.expires_at < now

\* a request that invalidates every code handed out before it
invalidate_earlier_otps(records) == <<>>

\* cleanup_expired_otps: delete_many of the expired records
cleanup_expired_otps(records) == SelectSeq(records, LAMBDA r : ~otp_purged(r))

\* a filter that leaves the expiry out
otp_matches_any_age(record, email, otp) ==
    /\ record.user_id = email
    /\ record.otp = otp

\* the filter of validate_password_reset_otp:
\* {"user_id": email, "otp": otp, "expires_at": {"$gte": utcnow()}}
otp_matches(record, email, otp) ==
    /\ record.user_id = email
    /\ record.otp = otp
    /\ record.expires_at >= now

\* find_one with that filter: position of the first match, 0 for none
find_otp(email, otp) ==
    LET found == {i \in DOMAIN password_resets : otp_matches(password_resets[i], email, otp)}
    IN IF found = {} THEN 0 ELSE Min(found)

\* a validation that leaves the record in the store
keep_otp(records, i) == records

\* delete_one({"_id": record["_id"]})
delete_otp(records, i) == RemoveAt(records, i)

\* a handler that takes its record back when the notifier fails
rolled_back_unless_sent(records, sent) ==
    IF sent THEN records ELSE SubSeq(records, 1, Len(records) - 1)

\* "if not sent: return ...": the store is left as insert_one made it
kept_whether_sent(records, sent) == records

\* request_password_reset(email); otp is what generate_otp draws and sent is
\* what send_otp_email returns
request_password_reset(email, otp, sent) ==
    LET request == [op |-> "request_reset", email |-> email]
        kept == cleanup_expired_otps(password_resets)
    IN
    /\ Len(kept) < MaxResets
    /\ password_resets' =
          kept_whether_sent(Append(kept, [user_id |-> email, otp |-> otp,
                                          expires_at |-> otp_expiry_time,
                                          created_at |-> now]), sent)
    /\ resp' = request @@ (IF sent
                             THEN [success |-> TRUE, message |-> "OTP sent to your email"]
                             ELSE [success |-> FALSE, message |-> "Failed to send OTP"])
    /\ UNCHANGED <<users, login_attempts, tasks, next_task_id, now, ticks, inflight>>

OtpInvalid == [success |-> FALSE, message |-> "Invalid or expired OTP"]

OtpValidated == [success |-> TRUE, message |-> "OTP validated"]

\* validate_password_reset_otp(email, otp)
validate_password_reset_otp(email, otp) ==
    LET request == [op |-> "validate", email |-> email, otp |-> otp]
        record == find_otp(email, otp)
    IN
    /\ IF record = 0
         THEN /\ resp' = request @@ OtpInvalid
              /\ UNCHANGED password_resets
         ELSE /\ password_resets' = delete_otp(password_resets, record)
              /\ resp' = request @@ OtpValidated
    /\ UNCHANGED <<users, login_attempts, tasks, next_task_id, now, ticks, inflight>>

\* validate_password_reset_otp up to its second await: find_one has returned
\* the record (a request that finds none is answered at once)
validate_password_reset_otp_read(email, otp) ==
    LET request == [op |-> "validate", email |-> email, otp |-> otp]
        record == find_otp(email, otp)
    IN
    /\ UNCHANGED <<users, login_attempts, password_resets, tasks, next_task_id, now, ticks>>
    /\ IF record = 0
         THEN /\ resp' = request @@ OtpInvalid
              /\ UNCHANGED inflight
         ELSE /\ Len(inflight) < MaxInflight
              /\ inflight' = Append(inflight, request @@ [record |-> password_resets[record]])
              /\ UNCHANGED resp

\* validate_password_reset_otp from its second await: delete_one by the _id of
\* the record read, whose result is not looked at, and the success response
validate_password_reset_otp_write(k) ==
    LET request == inflight[k]
        stored == {i \in DOMAIN password_resets : password_resets[i] = request.record}
    IN
    /\ request.op = "validate"
    /\ inflight' = RemoveAt(inflight, k)
    /\ password_resets' = IF stored = {} THEN password_resets
                          ELSE delete_otp(password_resets, Min(stored))
    /\ resp' = [op |-> request.op, email |-> request.email, otp |-> request.otp]
                 @@ OtpValidated
    /\ UNCHANGED <<users, login_attempts, tasks, next_task_id, now, ticks>>

\* an update that leaves a lock that is still running in place
password_update_keeping_lock(user, new_password) ==
    [user EXCEPT !.password = hash_password(new_password),
                 !.password_changed_at = now,
                 !.locked_until = IF is_locked(user) THEN @ ELSE Null]

\* the $set of change_password
password_update(user, new_password) ==
    [user EXCEPT !.password = hash_password(new_password),
                 !.password_changed_at = now,
                 !.locked_until = Null]

\* a handler that checks the new password before it validates the code
change_password_strength_first(email, otp, new_password) ==
    LET uid == get_user_by_email(email)
        request == [op |-> "change_password", email |-> email, otp |-> otp,
                    password |-> new_password,
                    lock_before |-> IF uid = 0 THEN Null ELSE users[uid].locked_until]
        record == find_otp(email, otp)
        strength == validate_password_strength(new_password)
    IN
    /\ UNCHANGED <<login_attempts, tasks, next_task_id, now, ticks, inflight>>
    /\ IF uid = 0
         THEN /\ resp' = request @@ [success |-> FALSE, message |-> "User not found"]
              /\ UNCHANGED <<users, password_resets>>
       ELSE IF ~strength[1]
         THEN /\ resp' = request @@ [success |-> FALSE, message |-> strength[2]]
              /\ UNCHANGED <<users, password_resets>>
       ELSE IF record = 0
         THEN /\ resp' = request @@ OtpInvalid
              /\ UNCHANGED <<users, password_resets>>
       ELSE /\ password_resets' = delete_otp(password_resets, record)
            /\ users' = [users EXCEPT ![uid] = password_update(@, new_password)]
            /\ resp' = request @@ [success |-> TRUE,
                                   message |-> "Password changed successfully"]

\* a handler that validates (and consumes) the code before it looks the user up
change_password_validating_first(email, otp, new_password) ==
    LET uid == get_user_by_email(email)
        request == [op |-> "change_password", email |-> email, otp |-> otp,
                    password |-> new_password,
                    lock_before |-> IF uid = 0 THEN Null ELSE users[uid].locked_until]
        record == find_otp(email, otp)
        strength == validate_password_strength(new_password)
    IN
    /\ UNCHANGED <<login_attempts, tasks, next_task_id, now, ticks, inflight>>
    /\ IF record = 0
         THEN /\ resp' = request @@ OtpInvalid
              /\ UNCHANGED <<users, password_resets>>
       ELSE /\ password_resets' = delete_otp(password_resets, record)
            /\ IF uid = 0
                 THEN /\ resp' = request @@ [success |-> FALSE, message |-> "User not found"]
                      /\ UNCHANGED users
               ELSE IF ~strength[1]
                 THEN /\ resp' = request @@ [success |-> FALSE, message |-> strength[2]]
                      /\ UNCHANGED users
                 ELSE /\ users' = [users EXCEPT ![uid] = password_update(@, new_password)]
                      /\ resp' = request @@ [success |-> TRUE,
                                             message |-> "Password changed successfully"]

\* change_password(email, otp, new_password); lock_before is the locked_until
\* the handler found on the user (Null without a user)
change_password(email, otp, new_password) ==
    LET uid == get_user_by_email(email)
        request == [op |-> "change_password", email |-> email, otp |-> otp,
                    password |-> new_password,
                    lock_before |-> IF uid = 0 THEN Null ELSE users[uid].locked_until]
        record == find_otp(email, otp)
        strength == validate_password_strength(new_password)
    IN
    /\ UNCHANGED <<login_attempts, tasks, next_task_id, now, ticks, inflight>>
    /\ IF uid = 0
         THEN /\ resp' = request @@ [success |-> FALSE, message |-> "User not found"]
              /\ UNCHANGED <<users, password_resets>>
       ELSE IF record = 0
         THEN /\ resp' = request @@ OtpInvalid
              /\ UNCHANGED <<users, password_resets>>
       ELSE /\ password_resets' = delete_otp(password_resets, record)
            /\ IF ~strength[1]
                 THEN /\ resp' = request @@ [success |-> FALSE, message |-> strength[2]]
                      /\ UNCHANGED users
                 ELSE /\ users' = [users EXCEPT ![uid] = password_update(@, new_password)]
                      /\ resp' = request @@ [success |-> TRUE,
                                             message |-> "Password changed successfully"]

-----------------------------------------------------------------------------
(* Task workflow.  The caller is the identity (email, role) of the request. *)

DevStatus == {"pending", "in_progress", "completed"}
TesterStatus == {"pending", "tested", "closed"}

\* find_one({"_id": oid}): position of the task, 0 for none (or a malformed id)
find_task(task_id) ==
    LET found == {i \in DOMAIN tasks : tasks[i]._id = task_id}
    IN IF found = {} THEN 0 ELSE Min(found)

TaskNotFound == [status |-> 404, detail |-> "Task not found"]

Forbidden(detail) == [status |-> 403, detail |-> detail]

Ok(code) == [status |-> code, detail |-> "ok"]

\* a creation that gives no side a status
no_initial_status(assignee) == Nobody

\* status given to a side at creation
initial_status(assignee) == IF assignee # Nobody THEN "pending" ELSE Nobody

\* POST /tasks: create_new_task and create_task
create_task(caller, title, created_by, assigned_to_dev, assigned_to_tester) ==
    LET request == [op |-> "create", caller |-> caller.email, task_id |-> next_task_id]
    IN
    /\ UNCHANGED <<users, login_attempts, password_resets, now, ticks, inflight>>
    /\ IF caller.role \notin {"admin", "manager"}
         THEN /\ resp' = request @@ Forbidden("Not authorized to create tasks")
              /\ UNCHANGED <<tasks, next_task_id>>
         ELSE /\ next_task_id <= MaxTaskIds
              /\ tasks' = Append(tasks,
                    [_id |-> next_task_id,
                     title |-> title,
                     created_by |-> created_by,
                     assigned_to_dev |-> assigned_to_dev,
                     assigned_to_tester |-> assigned_to_tester,
                     dev_status |-> initial_status(assigned_to_dev),
                     tester_status |-> initial_status(assigned_to_tester),
                     remarks |-> <<>>,
                     created_at |-> now,
                     updated_at |-> now])
              /\ next_task_id' = next_task_id + 1
              /\ resp' = request @@ Ok(201)

\* an assignment that always restarts the status
status_reset_on_assignment(current_status) == "pending"

\* the auto-status rule of assign_task and update_task_admin: pending when the
\* side had no status yet, else the status is not written
status_on_assignment(current_status) ==
    IF current_status = Nobody THEN "pending" ELSE current_status

\* the $set of assign_task
assign_update(current, developer, tester) ==
    LET with_dev == IF developer # Nobody
                      THEN [current EXCEPT !.assigned_to_dev = developer,
                                           !.dev_status = status_on_assignment(current.dev_status)]
                      ELSE current
    IN IF tester # Nobody
         THEN [with_dev EXCEPT !.assigned_to_tester = tester,
                               !.tester_status = status_on_assignment(current.tester_status)]
         ELSE with_dev

\* an assignment that writes whatever it was given
always_something_to_change(developer, tester) == FALSE

\* "if not update": neither argument was given, so the update is empty
nothing_to_change(developer, tester) == developer = Nobody /\ tester = Nobody

\* PUT /tasks/{id}/assign: assign_task_route and assign_task
assign_task(caller, task_id, developer, tester) ==
    LET request == [op |-> "assign", caller |-> caller.email, task_id |-> task_id]
        i == find_task(task_id)
    IN
    /\ UNCHANGED <<users, login_attempts, password_resets, next_task_id, now, ticks, inflight>>
    /\ IF caller.role \notin {"admin", "manager"}
         THEN /\ resp' = request @@ Forbidden("Not authorized to assign tasks")
              /\ UNCHANGED tasks
       ELSE IF i = 0
         THEN /\ resp' = request @@ TaskNotFound
              /\ UNCHANGED tasks
       ELSE IF nothing_to_change(developer, tester)
         THEN /\ resp' = request @@ Ok(200)
              /\ UNCHANGED tasks
       ELSE /\ tasks' = [tasks EXCEPT ![i] =
                            [assign_update(tasks[i], developer, tester)
                                EXCEPT !.updated_at = now]]
            /\ resp' = request @@ Ok(200)

\* PUT /tasks/{id}: update_existing_task_admin and update_task_admin; title
\* stands for the fields title, description, priority and due_date
update_task_admin(caller, task_id, title, developer, tester) ==
    LET request == [op |-> "adminUpdate", caller |-> caller.email, task_id |-> task_id]
        i == find_task(task_id)
    IN
    /\ UNCHANGED <<users, login_attempts, password_resets, next_task_id, now, ticks, inflight>>
    /\ IF caller.role \notin {"admin", "manager"}
         THEN /\ resp' = request @@ Forbidden("Not authorized to perform full update")
              /\ UNCHANGED tasks
       ELSE IF i = 0
         THEN /\ resp' = request @@ TaskNotFound
              /\ UNCHANGED tasks
       ELSE IF title = Nobody /\ developer = Nobody /\ tester = Nobody
         THEN /\ resp' = request @@ Ok(200)
              /\ UNCHANGED tasks
       ELSE /\ tasks' = [tasks EXCEPT ![i] =
                            [assign_update(tasks[i], developer, tester)
                                EXCEPT !.title = IF title # Nobody THEN title ELSE @,
                                       !.updated_at = now]]
            /\ resp' = request @@ Ok(200)

\* a gate that lets the roles of the other administrative routes delete
may_delete_as_manager(role) == role \in {"admin", "manager"}

\* the role gate of delete_existing_task
may_delete(role) == role = "admin"

\* DELETE /tasks/{id}: delete_existing_task and delete_task
delete_task(caller, task_id) ==
    LET request == [op |-> "delete", caller |-> caller.email, task_id |-> task_id]
        i == find_task(task_id)
    IN
    /\ UNCHANGED <<users, login_attempts, password_resets, next_task_id, now, ticks, inflight>>
    /\ IF ~may_delete(caller.role)
         THEN /\ resp' = request @@ Forbidden("Not authorized to delete tasks")
              /\ UNCHANGED tasks
       ELSE IF i = 0
         THEN /\ resp' = request @@ [status |-> 404,
                                     detail |-> "Task not found or deletion failed"]
              /\ UNCHANGED tasks
       ELSE /\ tasks' = RemoveAt(tasks, i)
            /\ resp' = request @@ Ok(200)

\* a check that refuses only a task nobody is assigned to
assigned_to_nobody(assignee, user_email) == assignee = Nobody

\* task.get("assigned_to_dev") != user_email, and the same for the tester
assigned_to_other(assignee, user_email) == assignee # user_email

\* a handler that lets the status of a task the tester has passed stand
update_dev_status_until_tested(caller, task_id, dev_status) ==
    LET request == [op |-> "developerSetStatus", caller |-> caller.email,
                    task_id |-> task_id]
        i == find_task(task_id)
    IN
    /\ UNCHANGED <<users, login_attempts, password_resets, next_task_id, now, ticks, inflight>>
    /\ IF caller.role # "developer"
         THEN /\ resp' = request @@ Forbidden("Not a developer")
              /\ UNCHANGED tasks
       ELSE IF i = 0
         THEN /\ resp' = request @@ TaskNotFound
              /\ UNCHANGED tasks
       ELSE IF assigned_to_other(tasks[i].assigned_to_dev, caller.email)
         THEN /\ resp' = request @@ Forbidden("Task not assigned to this developer")
              /\ UNCHANGED tasks
       ELSE /\ tasks' = [tasks EXCEPT
                           ![i].dev_status = IF tasks[i].tester_status \in {"tested", "closed"}
                                               THEN @ ELSE dev_status,
                           ![i].updated_at = now]
            /\ resp' = request @@ Ok(200)

\* PUT /tasks/{id}/status: update_dev_status_route and update_dev_status
update_dev_status(caller, task_id, dev_status) ==
    LET request == [op |-> "developerSetStatus", caller |-> caller.email,
                    task_id |-> task_id]
        i == find_task(task_id)
    IN
    /\ UNCHANGED <<users, login_attempts, password_resets, next_task_id, now, ticks, inflight>>
    /\ IF caller.role # "developer"
         THEN /\ resp' = request @@ Forbidden("Not a developer")
              /\ UNCHANGED tasks
       ELSE IF i = 0
         THEN /\ resp' = request @@ TaskNotFound
              /\ UNCHANGED tasks
       ELSE IF assigned_to_other(tasks[i].assigned_to_dev, caller.email)
         THEN /\ resp' = request @@ Forbidden("Task not assigned to this developer")
              /\ UNCHANGED tasks
       ELSE /\ tasks' = [tasks EXCEPT ![i].dev_status = dev_status,
                                      ![i].updated_at = now]
            /\ resp' = request @@ Ok(200)

\* a remark as append_dev_remarks / append_tester_remarks tag it
tagged_remark(tag, user_email, text) ==
    [tag |-> tag, author |-> user_email, at |-> now, text |-> text]

\* a remark string stored as the tester's status update passes it
raw_remark(text) == [tag |-> Nobody, author |-> Nobody, at |-> Null, text |-> text]

tag_all(tag, user_email, remarks) ==
    [k \in DOMAIN remarks |-> tagged_remark(tag, user_email, remarks[k])]

\* a push that skips the entries the array already holds
push_remarks_deduplicated(task, tagged, at) ==
    [task EXCEPT !.remarks = @ \o SelectSeq(tagged, LAMBDA e : e \notin Range(task.remarks)),
                 !.updated_at = at]

\* {"$push": {"remarks": {"$each": tagged}}, "$set": {"updated_at": now}}
push_remarks(task, tagged, at) ==
    [task EXCEPT !.remarks = @ \o tagged, !.updated_at = at]

\* PUT /tasks/{id}/remarks: append_dev_remarks_route and append_dev_remarks
append_dev_remarks(caller, task_id, remarks) ==
    LET request == [op |-> "developerAppendRemarks", caller |-> caller.email,
                    task_id |-> task_id]
        i == find_task(task_id)
    IN
    /\ UNCHANGED <<users, login_attempts, password_resets, next_task_id, now, ticks, inflight>>
    /\ IF caller.role # "developer"
         THEN /\ resp' = request @@ Forbidden("Not a developer")
              /\ UNCHANGED tasks
       ELSE IF i = 0
         THEN /\ resp' = request @@ TaskNotFound
              /\ UNCHANGED tasks
       ELSE IF assigned_to_other(tasks[i].assigned_to_dev, caller.email)
         THEN /\ resp' = request @@ Forbidden("Task not assigned to this developer")
              /\ UNCHANGED tasks
       ELSE /\ Len(tasks[i].remarks) + Len(remarks) <= MaxRemarks
            /\ tasks' = [tasks EXCEPT ![i] =
                            push_remarks(@, tag_all("DEV", caller.email, remarks), now)]
            /\ resp' = request @@ Ok(200)

\* a precondition looked at only before the tester's first update
dev_must_complete_first_time_only(task) ==
    task.tester_status = "pending" /\ task.dev_status # "completed"

\* the precondition of update_tester_status: the developer has completed
dev_must_complete(task) == task.dev_status # "completed"

\* the $set of update_tester_status
tester_status_update(task, tester_status, remarks) ==
    [task EXCEPT !.tester_status = tester_status,
                 !.remarks = IF remarks # <<Nobody>>
                               THEN [k \in DOMAIN remarks |-> raw_remark(remarks[k])]
                               ELSE @,
                 !.updated_at = now]

\* PUT /tasks/{id}/test-status: update_test_status_route and update_tester_status;
\* remarks is <<Nobody>> when the payload carries none
update_tester_status(caller, task_id, tester_status, remarks) ==
    LET request == [op |-> "testerSetStatus", caller |-> caller.email,
                    task_id |-> task_id]
        i == find_task(task_id)
    IN
    /\ UNCHANGED <<users, login_attempts, password_resets, next_task_id, now, ticks, inflight>>
    /\ IF caller.role # "tester"
         THEN /\ resp' = request @@ Forbidden("Not a tester")
              /\ UNCHANGED tasks
       ELSE IF i = 0
         THEN /\ resp' = request @@ TaskNotFound
              /\ UNCHANGED tasks
       ELSE IF assigned_to_other(tasks[i].assigned_to_tester, caller.email)
         THEN /\ resp' = request @@ Forbidden("Task not assigned to this tester")
              /\ UNCHANGED tasks
       ELSE IF dev_must_complete(tasks[i])
         THEN /\ resp' = request @@
                    Forbidden("Developer must complete the task before tester can update status")
              /\ UNCHANGED tasks
       ELSE /\ remarks # <<Nobody>> => Len(remarks) <= MaxRemarks
            /\ tasks' = [tasks EXCEPT ![i] = tester_status_update(@, tester_status, remarks)]
            /\ resp' = request @@ Ok(200)

\* PUT /tasks/{id}/test-remarks: append_test_remarks_route and append_tester_remarks
append_tester_remarks(caller, task_id, remarks) ==
    LET request == [op |-> "testerAppendRemarks", caller |-> caller.email,
                    task_id |-> task_id]
        i == find_task(task_id)
    IN
    /\ UNCHANGED <<users, login_attempts, password_resets, next_task_id, now, ticks, inflight>>
    /\ IF caller.role # "tester"
         THEN /\ resp' = request @@ Forbidden("Not a tester")
              /\ UNCHANGED tasks
       ELSE IF i = 0
         THEN /\ resp' = request @@ TaskNotFound
              /\ UNCHANGED tasks
       ELSE IF assigned_to_other(tasks[i].assigned_to_tester, caller.email)
         THEN /\ resp' = request @@ Forbidden("Task not assigned to this tester")
              /\ UNCHANGED tasks
       ELSE /\ Len(tasks[i].remarks) + Len(remarks) <= MaxRemarks
            /\ tasks' = [tasks EXCEPT ![i] =
                            push_remarks(@, tag_all("TESTER", caller.email, remarks), now)]
            /\ resp' = request @@ Ok(200)

\* find_one_and_update found no document: the route has no task to return
NoDocument == [status |-> 500, detail |-> "Internal Server Error"]

\* update_tester_status up to its second await: the request has read the task
\* and passed every check (a request that fails one is answered at once, as in
\* update_tester_status)
update_tester_status_read(caller, task_id, tester_status, remarks) ==
    LET i == find_task(task_id)
    IN
    /\ Len(inflight) < MaxInflight
    /\ caller.role = "tester"
    /\ i # 0
    /\ ~assigned_to_other(tasks[i].assigned_to_tester, caller.email)
    /\ ~dev_must_complete(tasks[i])
    /\ inflight' = Append(inflight, [op |-> "testerSetStatus", caller |-> caller.email,
                                     task_id |-> task_id, tester_status |-> tester_status,
                                     remarks |-> remarks])
    /\ UNCHANGED <<users, login_attempts, password_resets, tasks, next_task_id, now, ticks,
                   resp>>

\* update_tester_status from its second await: find_one_and_update by _id
\* alone; k is the position of the request among those in flight
update_tester_status_write(k) ==
    LET request == inflight[k]
        i == find_task(request.task_id)
        echo == [op |-> request.op, caller |-> request.caller, task_id |-> request.task_id]
    IN
    /\ request.op = "testerSetStatus"
    /\ inflight' = RemoveAt(inflight, k)
    /\ UNCHANGED <<users, login_attempts, password_resets, next_task_id, now, ticks>>
    /\ IF i = 0
         THEN /\ resp' = echo @@ NoDocument
              /\ UNCHANGED tasks
         ELSE /\ tasks' = [tasks EXCEPT ![i] =
                              tester_status_update(@, request.tester_status, request.remarks)]
              /\ resp' = echo @@ Ok(200)

\* an exception no handler catches: FastAPI answers 500
Unhandled == [status |-> 500, detail |-> "Internal Server Error"]

\* PUT /tasks/{id}/status as the route runs it on a bearer token: current_user
\* is the payload get_current_user returns, the token's claims; the role check
\* reads current_user["role"], and both of its branches read
\* current_user["email"], a KeyError when the payload has no such key
update_dev_status_route(token, task_id, dev_status) ==
    LET request == [op |-> "developerSetStatus", task_id |-> task_id, token |-> token]
        payload == decode_jwt_token(token)
        current_user == token
    IN
    IF ~payload.success
      THEN /\ resp' = request @@ [status |-> 401, detail |-> "Invalid or expired token"]
           /\ UNCHANGED <<users, login_attempts, password_resets, tasks, next_task_id, now,
                          ticks, inflight>>
    ELSE IF "email" \notin DOMAIN current_user
      THEN /\ resp' = request @@ Unhandled
           /\ UNCHANGED <<users, login_attempts, password_resets, tasks, next_task_id, now,
                          ticks, inflight>>
    ELSE update_dev_status(current_user, task_id, dev_status)

\* PUT /tasks/{id}/test-status as the route runs it on a bearer token
update_test_status_route(token, task_id, tester_status, remarks) ==
    LET request == [op |-> "testerSetStatus", task_id |-> task_id, token |-> token]
        payload == decode_jwt_token(token)
        current_user == token
    IN
    IF ~payload.success
      THEN /\ resp' = request @@ [status |-> 401, detail |-> "Invalid or expired token"]
           /\ UNCHANGED <<users, login_attempts, password_resets, tasks, next_task_id, now,
                          ticks, inflight>>
    ELSE IF "email" \notin DOMAIN current_user
      THEN /\ resp' = request @@ Unhandled
           /\ UNCHANGED <<users, login_attempts, password_resets, tasks, next_task_id, now,
                          ticks, inflight>>
    ELSE update_tester_status(current_user, task_id, tester_status, remarks)

\* assign_task up to its second await: the request has read the task and built
\* its $set from the document read (a request that is refused or has nothing to
\* change is answered at once, as in assign_task); a field of "set" that is
\* Nobody is not in the $set
assign_task_read(caller, task_id, developer, tester) ==
    LET i == find_task(task_id)
        update == assign_update(tasks[i], developer, tester)
    IN
    /\ Len(inflight) < MaxInflight
    /\ caller.role \in {"admin", "manager"}
    /\ i # 0
    /\ ~nothing_to_change(developer, tester)
    /\ inflight' = Append(inflight,
          [op |-> "assign", caller |-> caller.email, task_id |-> task_id,
           set |-> [title |-> Nobody,
                    assigned_to_dev |-> developer,
                    assigned_to_tester |-> tester,
                    dev_status |-> IF update.dev_status # tasks[i].dev_status
                                     THEN update.dev_status ELSE Nobody,
                    tester_status |-> IF update.tester_status # tasks[i].tester_status
                                        THEN update.tester_status ELSE Nobody]])
    /\ UNCHANGED <<users, login_attempts, password_resets, tasks, next_task_id, now, ticks,
                   resp>>

\* update_task_admin up to its second await, in the same way
update_task_admin_read(caller, task_id, title, developer, tester) ==
    LET i == find_task(task_id)
        update == assign_update(tasks[i], developer, tester)
    IN
    /\ Len(inflight) < MaxInflight
    /\ caller.role \in {"admin", "manager"}
    /\ i # 0
    /\ ~(title = Nobody /\ developer = Nobody /\ tester = Nobody)
    /\ inflight' = Append(inflight,
          [op |-> "adminUpdate", caller |-> caller.email, task_id |-> task_id,
           set |-> [title |-> title,
                    assigned_to_dev |-> developer,
                    assigned_to_tester |-> tester,
                    dev_status |-> IF update.dev_status # tasks[i].dev_status
                                     THEN update.dev_status ELSE Nobody,
                    tester_status |-> IF update.tester_status # tasks[i].tester_status
                                        THEN update.tester_status ELSE Nobody]])
    /\ UNCHANGED <<users, login_attempts, password_resets, tasks, next_task_id, now, ticks,
                   resp>>

\* assign_task and update_task_admin from their second await:
\* find_one_and_update by _id alone with the $set built from the document read
assignment_write(k) ==
    LET request == inflight[k]
        i == find_task(request.task_id)
        set == request.set
        Written_(field, stored) == IF set[field] # Nobody THEN set[field] ELSE stored
        echo == [op |-> request.op, caller |-> request.caller, task_id |-> request.task_id]
    IN
    /\ request.op \in {"assign", "adminUpdate"}
    /\ inflight' = RemoveAt(inflight, k)
    /\ UNCHANGED <<users, login_attempts, password_resets, next_task_id, now, ticks>>
    /\ IF i = 0
         THEN /\ resp' = echo @@ NoDocument
              /\ UNCHANGED tasks
         ELSE /\ tasks' = [tasks EXCEPT ![i] =
                  [@ EXCEPT !.title = Written_("title", @),
                            !.assigned_to_dev = Written_("assigned_to_dev", @),
                            !.assigned_to_tester = Written_("assigned_to_tester", @),
                            !.dev_status = Written_("dev_status", @),
                            !.tester_status = Written_("tester_status", @),
                            !.updated_at = now]]
              /\ resp' = echo @@ Ok(200)

\* append_dev_remarks up to its second await: the request has read the task,
\* passed every check and tagged its remarks with the time it read
append_dev_remarks_read(caller, task_id, remarks) ==
    LET i == find_task(task_id)
    IN
    /\ Len(inflight) < MaxInflight
    /\ caller.role = "developer"
    /\ i # 0
    /\ ~assigned_to_other(tasks[i].assigned_to_dev, caller.email)
    /\ inflight' = Append(inflight, [op |-> "developerAppendRemarks", caller |-> caller.email,
                                     task_id |-> task_id, remarks |-> remarks, at |-> now,
                                     tagged |-> tag_all("DEV", caller.email, remarks)])
    /\ UNCHANGED <<users, login_attempts, password_resets, tasks, next_task_id, now, ticks,
                   resp>>

\* append_tester_remarks up to its second await
append_tester_remarks_read(caller, task_id, remarks) ==
    LET i == find_task(task_id)
    IN
    /\ Len(inflight) < MaxInflight
    /\ caller.role = "tester"
    /\ i # 0
    /\ ~assigned_to_other(tasks[i].assigned_to_tester, caller.email)
    /\ inflight' = Append(inflight, [op |-> "testerAppendRemarks", caller |-> caller.email,
                                     task_id |-> task_id, remarks |-> remarks, at |-> now,
                                     tagged |-> tag_all("TESTER", caller.email, remarks)])
    /\ UNCHANGED <<users, login_attempts, password_resets, tasks, next_task_id, now, ticks,
                   resp>>

\* append_dev_remarks / append_tester_remarks from the second await: one
\* find_one_and_update that pushes the tagged remarks; k is the position of the
\* request among those in flight
append_remarks_write(k) ==
    LET request == inflight[k]
        i == find_task(request.task_id)
        echo == [op |-> request.op, caller |-> request.caller, task_id |-> request.task_id,
                 remarks |-> request.remarks, at |-> request.at]
    IN
    /\ request.op \in {"developerAppendRemarks", "testerAppendRemarks"}
    /\ inflight' = RemoveAt(inflight, k)
    /\ UNCHANGED <<users, login_attempts, password_resets, next_task_id, now, ticks>>
    /\ IF i = 0
         THEN /\ resp' = echo @@ NoDocument
              /\ UNCHANGED tasks
         ELSE /\ Len(tasks[i].remarks) + Len(request.tagged) <= MaxRemarks
              /\ tasks' = [tasks EXCEPT ![i] = push_remarks(@, request.tagged, request.at)]
              /\ resp' = echo @@ Ok(200)

\* the fields a list request can filter on; Nobody for a filter not supplied
FilterFields == {"assigned_to_dev", "assigned_to_tester", "dev_status", "tester_status",
                 "created_by"}

\* _build_query_from_filters: one equality per supplied (truthy) filter
build_query_from_filters(filters) ==
    [f \in {g \in FilterFields : filters[g] # Nobody} |-> filters[f]]

\* q with q[field] = value, overwriting an equality q already had on the field
set_query(q, field, value) ==
    [f \in DOMAIN q \cup {field} |-> IF f = field THEN value ELSE q[f]]

\* the query of get_all_tasks: the filters, then the caller's own email written
\* on the assignee field of a developer or tester
list_query(filters, current_user) ==
    LET q == build_query_from_filters(filters)
    IN IF current_user.role = "developer"
         THEN set_query(q, "assigned_to_dev", current_user.email)
       ELSE IF current_user.role = "tester"
         THEN set_query(q, "assigned_to_tester", current_user.email)
       ELSE q

\* task_collection.find(q): the ids of the stored tasks equal to q on every
\* field q names
get_all_tasks(filters, current_user) ==
    LET q == list_query(filters, current_user)
    IN {tasks[i]._id : i \in {j \in DOMAIN tasks : \A f \in DOMAIN q : tasks[j][f] = q[f]}}

\* GET /tasks: list_all_tasks and get_all_tasks; the result is the set of ids
\* of the tasks returned
list_all_tasks(caller, filters) ==
    LET request == [op |-> "list", caller |-> caller.email, task_id |-> 0,
                    filters |-> filters]
    IN
    /\ UNCHANGED <<users, login_attempts, password_resets, tasks, next_task_id, now, ticks, inflight>>
    /\ IF caller.role \notin {"admin", "manager", "developer", "tester"}
         THEN resp' = request @@ Forbidden("Not authorized") @@ [result |-> {}]
         ELSE resp' = request @@ Ok(200) @@ [result |-> get_all_tasks(filters, caller)]

-----------------------------------------------------------------------------
(* Lockout: one registered user logging in with right and wrong passwords *)

AuthEmails == {"a@x.com", "b@x.com"}

GarbageToken == [user_id |-> NoId, role |-> Nobody, exp |-> 0]

IssuedTokens == {login_attempts[i].token : i \in DOMAIN login_attempts} \ {NoToken}

LockSteps == {1, LOCK_HOURS * MinutesPerHour}

NextAuth ==
    \/ register_user("a@x.com", Weak111x, "developer", TRUE)
    \/ /\ get_user_by_email("a@x.com") # 0
       /\ \E p \in {Weak111x, Weak1} : login_user("a@x.com", p)
    \/ \E d \in LockSteps : Tick(d)

SpecAuth == Init /\ [][NextAuth]_vars

-----------------------------------------------------------------------------
(* Probing: wrong passwords sent to an email before and after it is registered
   and to an email that never is *)

ProbedEmails == {"a@x.com", "ghost@x.com"}

NextProbe ==
    \/ register_user("a@x.com", Weak111x, "developer", TRUE)
    \/ \E e \in ProbedEmails : login_user(e, Weak1)
    \/ Tick(LOCK_HOURS * MinutesPerHour)

SpecProbe == Init /\ [][NextProbe]_vars

-----------------------------------------------------------------------------
(* Recovery codes: reset requests and validations for two emails *)

OtpEmails == {"a@x.com", "b@x.com"}

OtpCodes == {"100000", "999999"}

OtpSteps == {1, OTP_EXPIRE_MINUTES}

NextOtp ==
    \/ \E e \in OtpEmails, c \in OtpCodes, sent \in BOOLEAN : request_password_reset(e, c, sent)
    \/ \E e \in OtpEmails, c \in OtpCodes : validate_password_reset_otp(e, c)
    \/ \E d \in OtpSteps : Tick(d)

SpecOtp == Init /\ [][NextOtp]_vars

-----------------------------------------------------------------------------
(* Sessions: successful logins of two users and logouts, on a short ledger *)

MaxSessions == 3

NextSession ==
    \/ \E e \in AuthEmails : register_user(e, Weak111x, "developer", TRUE)
    \/ /\ Len(login_attempts) < MaxSessions
       /\ \E e \in AuthEmails : get_user_by_email(e) # 0 /\ login_user(e, Weak111x)
    \/ \E t \in IssuedTokens \cup {GarbageToken} : logout(t)
    \/ Tick(1)

SpecSession == Init /\ [][NextSession]_vars

-----------------------------------------------------------------------------
(* Task workflow: the staff is registered, then tasks are created and worked on *)

Staff ==
    <<[email |-> "admin@x.com", role |-> "admin"],
      [email |-> "manager@x.com", role |-> "manager"],
      [email |-> "dev1@x.com", role |-> "developer"],
      [email |-> "dev2@x.com", role |-> "developer"],
      [email |-> "qa@x.com", role |-> "tester"]>>

\* the state after the staff has registered, nothing else done
InitTask ==
    /\ users = [i \in DOMAIN Staff |-> user_document(i, Staff[i].email, Weak111x, Staff[i].role)]
    /\ login_attempts = <<>>
    /\ password_resets = <<>>
    /\ tasks = <<>>
    /\ next_task_id = 1
    /\ now = 0
    /\ ticks = 0
    /\ resp = NoResp
    /\ inflight = <<>>

\* the identity a verified session of the user carries
Caller(email) ==
    LET uid == get_user_by_email(email)
    IN [email |-> users[uid].email, role |-> users[uid].role]

\* who sends which request: callers of a role the route admits and one it refuses
Managing == {Caller("manager@x.com"), Caller("dev1@x.com")}
Deleting == {Caller("admin@x.com"), Caller("manager@x.com")}
Developing == {Caller("dev1@x.com"), Caller("qa@x.com")}
Testing == {Caller("qa@x.com"), Caller("dev1@x.com")}

\* emails named as assignees: two developers, a tester and an email nobody registered
DevChoices == {"dev1@x.com", "dev2@x.com"}
TesterChoices == {"qa@x.com", "ghost@x.com"}

\* the ids of the tasks created so far and one that names no task
TaskIdChoices == 1..next_task_id

NextTask ==
    \/ \E c \in Managing, d \in {Nobody, "dev1@x.com"}, t \in {Nobody, "qa@x.com"} :
            create_task(c, "A", c.email, d, t)
    \/ \E c \in Managing, id \in TaskIdChoices,
            d \in DevChoices \cup {Nobody}, t \in TesterChoices \cup {Nobody} :
            assign_task(c, id, d, t)
    \/ \E c \in Managing, id \in TaskIdChoices,
            d \in {Nobody, "dev2@x.com"}, t \in {Nobody, "ghost@x.com"} :
            update_task_admin(c, id, "A", d, t)
    \/ \E c \in Deleting, id \in TaskIdChoices : delete_task(c, id)
    \/ \E c \in Developing, id \in TaskIdChoices, st \in DevStatus :
            update_dev_status(c, id, st)
    \/ \E c \in Testing, id \in TaskIdChoices, st \in TesterStatus :
            update_tester_status(c, id, st, <<Nobody>>)

SpecTask == InitTask /\ [][NextTask]_vars

-----------------------------------------------------------------------------
(* Registration: two emails registering with passwords of every strength *)

RegisterEmails == {"a@x.com", "b@x.com"}

NextRegister ==
    \E e \in RegisterEmails, p \in Passwords, has_date_of_joining \in BOOLEAN :
        register_user(e, p, "developer", has_date_of_joining)

SpecRegister == Init /\ [][NextRegister]_vars

-----------------------------------------------------------------------------
(* Recovery: a user who fails logins until locked asks for a code, when holding
   none, and sets a new password *)

NewPasswords == {Weak222x, Weak1}

NextRecover ==
    \/ register_user("a@x.com", Weak111x, "developer", TRUE)
    \/ get_user_by_email("a@x.com") # 0 /\ login_user("a@x.com", Weak1)
    \/ password_resets = <<>> /\ request_password_reset("a@x.com", "100000", TRUE)
    \/ \E otp \in OtpCodes, p \in NewPasswords : change_password("a@x.com", otp, p)
    \/ Tick(LOCK_HOURS * MinutesPerHour)

SpecRecover == Init /\ [][NextRecover]_vars

-----------------------------------------------------------------------------
(* Listing: tasks are created and moved on, and staff of every role list them
   with filters *)

Listing == {Caller("manager@x.com"), Caller("dev1@x.com"), Caller("qa@x.com")}

ListFilters ==
    [assigned_to_dev : {Nobody, "dev1@x.com", "dev2@x.com"},
     assigned_to_tester : {Nobody, "qa@x.com"},
     dev_status : {Nobody, "pending"},
     tester_status : {Nobody},
     created_by : {Nobody, "admin@x.com"}]

NextList ==
    \/ \E by \in {"admin@x.com", "manager@x.com"}, d \in {Nobody} \cup DevChoices,
            t \in {Nobody, "qa@x.com"} :
            create_task(Caller("manager@x.com"), "A", by, d, t)
    \/ \E id \in TaskIdChoices, st \in DevStatus :
            update_dev_status(Caller("dev1@x.com"), id, st)
    \/ \E c \in Listing, filters \in ListFilters : list_all_tasks(c, filters)

SpecList == InitTask /\ [][NextList]_vars

-----------------------------------------------------------------------------
(* Racing: the tester's status update, taken in its two steps, runs while the
   developer moves the task *)

NextRace ==
    \/ create_task(Caller("manager@x.com"), "A", "manager@x.com", "dev1@x.com", "qa@x.com")
    \/ \E id \in TaskIdChoices, st \in DevStatus :
            update_dev_status(Caller("dev1@x.com"), id, st)
    \/ \E id \in TaskIdChoices, st \in TesterStatus :
            update_tester_status_read(Caller("qa@x.com"), id, st, <<Nobody>>)
    \/ \E k \in DOMAIN inflight : update_tester_status_write(k)
    \/ \E id \in TaskIdChoices : delete_task(Caller("admin@x.com"), id)

SpecRace == InitTask /\ [][NextRace]_vars

-----------------------------------------------------------------------------
(* Remarks: the developer and the tester of a task append remarks, and the
   tester updates the status with and without a remarks list *)

RemarkTexts == {"x", "y"}

\* the remarks lists a request carries: one text, two texts, one text twice
RemarkLists == {<<"x">>, <<"x", "y">>, <<"y", "y">>}

NextRemarks ==
    \/ create_task(Caller("manager@x.com"), "A", "manager@x.com", "dev1@x.com", "qa@x.com")
    \/ \E id \in TaskIdChoices : update_dev_status(Caller("dev1@x.com"), id, "completed")
    \/ \E id \in TaskIdChoices, r \in RemarkLists :
            append_dev_remarks(Caller("dev1@x.com"), id, r)
    \/ \E id \in TaskIdChoices, r \in RemarkLists :
            append_tester_remarks(Caller("qa@x.com"), id, r)
    \/ \E id \in TaskIdChoices, r \in {<<Nobody>>, <<>>, <<"x">>} :
            update_tester_status(Caller("qa@x.com"), id, "tested", r)

SpecRemarks == InitTask /\ [][NextRemarks]_vars

-----------------------------------------------------------------------------
(* Appending: the developer and the tester of one task append remarks in
   requests whose reads and writes interleave *)

\* the state after the staff has registered and a manager has created a task
\* with a developer and a tester
InitAssigned ==
    /\ users = [i \in DOMAIN Staff |-> user_document(i, Staff[i].email, Weak111x, Staff[i].role)]
    /\ login_attempts = <<>>
    /\ password_resets = <<>>
    /\ tasks = <<[_id |-> 1, title |-> "A", created_by |-> "manager@x.com",
                  assigned_to_dev |-> "dev1@x.com", assigned_to_tester |-> "qa@x.com",
                  dev_status |-> initial_status("dev1@x.com"),
                  tester_status |-> initial_status("qa@x.com"),
                  remarks |-> <<>>, created_at |-> 0, updated_at |-> 0]>>
    /\ next_task_id = 2
    /\ now = 0
    /\ ticks = 0
    /\ resp = NoResp
    /\ inflight = <<>>

AppendLists == {<<"x">>, <<"x", "y">>}

NextAppend ==
    \/ \E r \in AppendLists : append_dev_remarks_read(Caller("dev1@x.com"), 1, r)
    \/ \E r \in AppendLists : append_tester_remarks_read(Caller("qa@x.com"), 1, r)
    \/ \E k \in DOMAIN inflight : append_remarks_write(k)

SpecAppend == InitAssigned /\ [][NextAppend]_vars

-----------------------------------------------------------------------------
(* Reassignment: a task assigned to a developer and a tester is handed to
   others and back while everybody tries the developer's and the tester's
   operations on it *)

Workers == {Caller("dev1@x.com"), Caller("dev2@x.com"), Caller("qa@x.com")}

NextReassign ==
    \/ \E d \in DevChoices \cup {Nobody}, t \in TesterChoices \cup {Nobody} :
            assign_task(Caller("manager@x.com"), 1, d, t)
    \/ \E c \in Workers, st \in {"in_progress", "completed"} : update_dev_status(c, 1, st)
    \/ \E c \in Workers : append_dev_remarks(c, 1, <<"x">>)
    \/ \E c \in Workers : update_tester_status(c, 1, "tested", <<Nobody>>)
    \/ \E c \in Workers : append_tester_remarks(c, 1, <<"x">>)

SpecReassign == InitAssigned /\ [][NextReassign]_vars

-----------------------------------------------------------------------------
(* Deletion: the manager creates, updates and assigns tasks, and staff of
   every role ask to delete them *)

Everybody == {Caller(Staff[i].email) : i \in DOMAIN Staff}

NextDelete ==
    \/ \E d \in {Nobody, "dev2@x.com"} :
            create_task(Caller("manager@x.com"), "A", "manager@x.com", d, Nobody)
    \/ \E id \in TaskIdChoices :
            update_task_admin(Caller("manager@x.com"), id, "B", Nobody, Nobody)
    \/ \E id \in TaskIdChoices, t \in {Nobody, "qa@x.com"} :
            assign_task(Caller("manager@x.com"), id, "dev1@x.com", t)
    \/ \E c \in Everybody, id \in TaskIdChoices : delete_task(c, id)

SpecDelete == InitTask /\ [][NextDelete]_vars

-----------------------------------------------------------------------------
(* Assignment over time: tasks are created and assigned, with and without
   arguments, while the clock moves *)

Assigning == {Caller("admin@x.com"), Caller("manager@x.com")}

NextAssign ==
    \/ \E d \in {Nobody, "dev1@x.com"} :
            create_task(Caller("manager@x.com"), "A", "manager@x.com", d, Nobody)
    \/ \E c \in Assigning, id \in TaskIdChoices,
            d \in {Nobody, "dev2@x.com"}, t \in {Nobody, "qa@x.com"} :
            assign_task(c, id, d, t)
    \/ Tick(1)

SpecAssign == InitTask /\ [][NextAssign]_vars

-----------------------------------------------------------------------------
(* Verification: a user logs in and out, and tokens are presented before and
   after logout and before and after their exp claim *)

TokenSteps == {1, ACCESS_TOKEN_EXPIRE_HOURS * MinutesPerHour}

NextVerify ==
    \/ register_user("a@x.com", Weak111x, "developer", TRUE)
    \/ /\ Len(login_attempts) < MaxSessions
       /\ get_user_by_email("a@x.com") # 0
       /\ login_user("a@x.com", Weak111x)
    \/ \E t \in IssuedTokens : logout(t)
    \/ \E t \in IssuedTokens \cup {GarbageToken} : get_current_user(t)
    \/ \E d \in TokenSteps : Tick(d)

SpecVerify == Init /\ [][NextVerify]_vars

-----------------------------------------------------------------------------
(* Dispatch: the notifier reaches b@x.com and fails for a@x.com, and both
   emails present their codes *)

Reached(email) == email = "b@x.com"

NextDispatch ==
    \/ \E e \in OtpEmails : request_password_reset(e, "100000", Reached(e))
    \/ \E e \in OtpEmails, c \in OtpCodes : validate_password_reset_otp(e, c)
    \/ \E d \in OtpSteps : Tick(d)

SpecDispatch == Init /\ [][NextDispatch]_vars

-----------------------------------------------------------------------------
(* Ledger: logins that fail and succeed, for a registered and an unknown
   email, and logouts, on a short ledger *)

NextLedger ==
    \/ register_user("a@x.com", Weak111x, "developer", TRUE)
    \/ /\ Len(login_attempts) < MaxSessions
       /\ \E e \in ProbedEmails, p \in {Weak111x, Weak1} : login_user(e, p)
    \/ \E t \in IssuedTokens : logout(t)
    \/ Tick(1)

SpecLedger == Init /\ [][NextLedger]_vars

-----------------------------------------------------------------------------
(* Concurrent registration: registrations of two emails whose look-up and
   insert are separate steps *)

NextRegisterRace ==
    \/ \E e \in RegisterEmails, r \in {"developer", "tester"} :
            register_user_read(e, Weak111x, r)
    \/ \E k \in DOMAIN inflight : register_user_write(k)
    \/ \E e \in RegisterEmails : register_user(e, Weak111x, "developer", TRUE)

SpecRegisterRace == Init /\ [][NextRegisterRace]_vars

-----------------------------------------------------------------------------
(* Coming back: a user who was locked out waits for the lock to run out or
   sets a new password, and logs in again *)

ReturnPasswords == {Weak1, Weak111x, Weak222x}

NextReturn ==
    \/ register_user("a@x.com", Weak111x, "developer", TRUE)
    \/ /\ get_user_by_email("a@x.com") # 0
       /\ \E p \in ReturnPasswords : login_user("a@x.com", p)
    \/ password_resets = <<>> /\ request_password_reset("a@x.com", "100000", TRUE)
    \/ change_password("a@x.com", "100000", Weak222x)
    \/ Tick(LOCK_HOURS * MinutesPerHour)

SpecReturn == Init /\ [][NextReturn]_vars

-----------------------------------------------------------------------------
(* Concurrent logins: wrong passwords sent for one user by two requests at a
   time, each reading the window before it records its failure *)

NextLoginRace ==
    \/ register_user("a@x.com", Weak111x, "developer", TRUE)
    \/ \E p \in {Weak1, Weak1x} : login_user_read("a@x.com", p)
    \/ \E k \in DOMAIN inflight : login_user_write(k)
    \/ Tick(1)

SpecLoginRace == Init /\ [][NextLoginRace]_vars

-----------------------------------------------------------------------------
(* Retrying: a user asks for codes, the generator drawing the same code each
   time, and sets a password that is too weak or strong enough *)

NextRetry ==
    \/ register_user("a@x.com", Weak111x, "developer", TRUE)
    \/ get_user_by_email("a@x.com") # 0 /\ login_user("a@x.com", Weak1)
    \/ request_password_reset("a@x.com", "100000", TRUE)
    \/ \E p \in NewPasswords : change_password("a@x.com", "100000", p)
    \/ Tick(OTP_EXPIRE_MINUTES)

SpecRetry == Init /\ [][NextRetry]_vars

-----------------------------------------------------------------------------
(* Concurrent validations: codes are requested one per email, and validations
   of a code run with their find and their delete apart *)

\* the record a request would store is not one a request in flight has read
\* (a stored _id is never handed out twice)
FreshRecord(email, otp) ==
    /\ \A i \in DOMAIN password_resets : password_resets[i].user_id # email
    /\ \A k \in DOMAIN inflight :
          inflight[k].record.user_id # email \/ inflight[k].record.created_at # now

NextValidateRace ==
    \/ \E e \in OtpEmails, c \in OtpCodes :
            FreshRecord(e, c) /\ request_password_reset(e, c, TRUE)
    \/ \E e \in OtpEmails, c \in OtpCodes : validate_password_reset_otp_read(e, c)
    \/ \E k \in DOMAIN inflight : validate_password_reset_otp_write(k)
    \/ Tick(1)

SpecValidateRace == Init /\ [][NextValidateRace]_vars

-----------------------------------------------------------------------------
(* Concurrent assignments: a task created without assignees is assigned by
   requests whose reads and writes interleave, while the developer works on it *)

NextAssignRace ==
    \/ create_task(Caller("manager@x.com"), "A", "manager@x.com", Nobody, Nobody)
    \/ \E id \in TaskIdChoices, t \in {Nobody, "qa@x.com"} :
            assign_task_read(Caller("manager@x.com"), id, "dev1@x.com", t)
    \/ \E id \in TaskIdChoices, title \in {Nobody, "B"} :
            update_task_admin_read(Caller("admin@x.com"), id, title, "dev1@x.com", Nobody)
    \/ \E k \in DOMAIN inflight : assignment_write(k)
    \/ \E id \in TaskIdChoices, st \in DevStatus :
            update_dev_status(Caller("dev1@x.com"), id, st)

SpecAssignRace == InitTask /\ [][NextAssignRace]_vars

-----------------------------------------------------------------------------
(* Identity: the developer and the tester of a task log in and send their
   status updates with the tokens they were given *)

NextIdentity ==
    \/ /\ Len(login_attempts) < MaxSessions
       /\ \E e \in {"dev1@x.com", "qa@x.com"} : login_user(e, Weak111x)
    \/ \E t \in IssuedTokens \cup {GarbageToken}, st \in DevStatus :
            update_dev_status_route(t, 1, st)
    \/ \E t \in IssuedTokens \cup {GarbageToken}, st \in TesterStatus :
            update_test_status_route(t, 1, st, <<Nobody>>)
    \/ \E d \in TokenSteps : Tick(d)

SpecIdentity == InitAssigned /\ [][NextIdentity]_vars

-----------------------------------------------------------------------------
(* What the claims speak about *)

\* a request was handled in this step (the clock stands still while it is)
Handled(op) == now' = now /\ resp'.op = op

\* every attempt recorded for the user, successful or not, oldest first
HistoryOf(uid) ==
    SelectSeq(login_attempts, LAMBDA a : a.user_id.type # "none" /\ a.user_id.id = uid)

\* the user's five most recent attempts exist and all failed
LastFiveAllFailed(uid) ==
    LET h == HistoryOf(uid)
    IN /\ Len(h) >= 5
       /\ \A i \in (Len(h) - 4)..Len(h) : ~h[i].success

\* time of the user's most recent failed attempt
LastFailureTime(uid) ==
    LET h == HistoryOf(uid)
        failed == {i \in DOMAIN h : ~h[i].success}
    IN IF failed = {} THEN Null
       ELSE h[CHOOSE i \in failed : \A j \in failed : j <= i].timestamp

TwoHours == LOCK_HOURS * MinutesPerHour

DeniedAsLocked(r) == r.op = "login" /\ ~r.success /\ r.action = "reset_password"

\* what the caller sees of a login response
Visible(r) == <<r.success, r.message, r.action>>

-----------------------------------------------------------------------------
\* C1 (as claimed): the lock runs for exactly 2 hours counted from the 5th
\* failed attempt: whenever an account carries a lock, locked_until is the time
\* of the user's most recent (5th) failed attempt + 2h.
C1_LockCountedFromFifthAttempt ==
    \A uid \in DOMAIN users :
        users[uid].locked_until # Null =>
            users[uid].locked_until = LastFailureTime(uid) + TwoHours

\* C1 (amended): once a user's five most recent attempts are all failures, the
\* next login (the 6th) is rejected as locked without the password being
\* verified and without being recorded; that 6th attempt sets
\* locked_until = its own time + 2h, and an attempt made before locked_until is
\* rejected the same way and leaves the lock as it is.
C1_LockCountedFromSixthAttempt ==
    [][\A uid \in DOMAIN users :
         (/\ Handled("login")
          /\ get_user_by_email(resp'.email) = uid
          /\ LastFiveAllFailed(uid))
         => /\ DeniedAsLocked(resp')
            /\ ~resp'.pw_checked
            /\ login_attempts' = login_attempts
            /\ IF is_locked(users[uid])
                 THEN users' = users
                 ELSE users'[uid].locked_until = now + TwoHours]_vars

\* C1 witness: the 6th attempt came later than the 5th failure and set the lock
\* to its own time + 2h
C1_Witness ==
    /\ DeniedAsLocked(resp)
    /\ resp.until = Null
    /\ LET uid == get_user_by_email(resp.email)
       IN /\ LastFiveAllFailed(uid)
          /\ LastFailureTime(uid) < now
          /\ users[uid].locked_until = now + TwoHours

\* C2 (as claimed): a success resets the window: a login is denied as locked
\* only if the user's five most recent attempts, successes included, all failed
\* (never after k failures, a success and fewer than 5 failures).
C2_SuccessResetsWindow ==
    DeniedAsLocked(resp) => LastFiveAllFailed(get_user_by_email(resp.email))

\* C3 (as claimed): whatever the history, a login with a wrong password to a
\* registered email gets the response an unknown email gets.
C3_WrongPasswordLooksUnknown ==
    (/\ resp.op = "login"
     /\ get_user_by_email(resp.email) # 0
     /\ ~verify_password(resp.password, users[get_user_by_email(resp.email)].password))
    => Visible(resp) = Visible(unknown_email_response)

\* C3 (amended): while fewer than 5 failed attempts are recorded for a
\* registered user, a login with a wrong password gets exactly the response an
\* unknown email gets; an unknown email always gets that response.
C3_WrongPasswordLooksUnknownBeforeLockout ==
    [][/\ \A uid \in DOMAIN users :
            (/\ Handled("login")
             /\ get_user_by_email(resp'.email) = uid
             /\ ~verify_password(resp'.password, users[uid].password)
             /\ Cardinality(AttemptsOf(users[uid])) < LOCK_THRESHOLD)
            => Visible(resp') = Visible(unknown_email_response)
       /\ (Handled("login") /\ get_user_by_email(resp'.email) = 0)
            => Visible(resp') = Visible(unknown_email_response)]_vars

\* C3 witness: a registered user with four recorded failures and an unknown
\* email have both been answered; the last wrong password got the unknown-email
\* response
C3_Witness ==
    /\ resp.op = "login"
    /\ get_user_by_email(resp.email) # 0
    /\ ~resp.success
    /\ resp.pw_checked
    /\ Visible(resp) = Visible(unknown_email_response)
    /\ Cardinality(AttemptsOf(users[get_user_by_email(resp.email)])) = LOCK_THRESHOLD - 1
    /\ \E i \in DOMAIN login_attempts : login_attempts[i].user_id = NoId

\* C4 (as claimed): logout succeeds at most once per token: a logout that
\* succeeds never finds the token already logged out, and it marks the entry
\* expired with a logout_time.
C4_LogoutSucceedsOnce ==
    [][(Handled("logout") /\ resp'.success)
        => /\ ~\E i \in DOMAIN login_attempts :
                  /\ login_attempts[i].token = resp'.token
                  /\ login_attempts[i].expired = "true"
           /\ \E i \in DOMAIN login_attempts :
                  /\ login_attempts[i].token = resp'.token
                  /\ login_attempts'[i].expired = "true"
                  /\ login_attempts'[i].logout_time = now]_vars

-----------------------------------------------------------------------------
\* number of stored records equal to r
Copies(records, r) == Cardinality({i \in DOMAIN records : records[i] = r})

\* stored records with this email and code that have not run out
LiveOtps(email, otp) ==
    {i \in DOMAIN password_resets :
        /\ password_resets[i].user_id = email
        /\ password_resets[i].otp = otp
        /\ password_resets[i].expires_at >= now}

\* C5 (as claimed): once validate(email, code) has succeeded, a second validate
\* with the same email and code fails: no record that validate would accept for
\* them is left in the store.
C5_SecondValidateFails ==
    (resp.op = "validate" /\ resp.success) => find_otp(resp.email, resp.otp) = 0

\* C5 (amended): a stored OTP record is single-use: validate succeeds exactly
\* when an unexpired record with the email and code is stored and then deletes
\* exactly one such record and nothing else, so a second validate with the same
\* email and code fails with "Invalid or expired OTP" unless a further
\* unexpired record with the same email and code is stored.
C5_EachRecordValidatesOnce ==
    [][Handled("validate") =>
        LET live == LiveOtps(resp'.email, resp'.otp)
        IN IF live = {}
             THEN /\ ~resp'.success
                  /\ resp'.message = "Invalid or expired OTP"
                  /\ password_resets' = password_resets
             ELSE /\ resp'.success
                  /\ Len(password_resets') = Len(password_resets) - 1
                  /\ \E i \in live :
                        /\ Copies(password_resets', password_resets[i])
                             = Copies(password_resets, password_resets[i]) - 1
                        /\ \A j \in DOMAIN password_resets :
                              password_resets[j] # password_resets[i]
                              => Copies(password_resets', password_resets[j])
                                   = Copies(password_resets, password_resets[j])]_vars

\* C5 witness: a validation succeeded and the store, which still holds other
\* records, has none left for that email and code
C5_Witness ==
    /\ resp.op = "validate"
    /\ resp.success
    /\ find_otp(resp.email, resp.otp) = 0
    /\ password_resets # <<>>

\* C6: every record runs out 10 minutes after its creation, and validate never
\* accepts a record that has run out: it succeeds only on a record with
\* expires_at >= now, it fails and changes nothing when every record with the
\* email and code has run out, and it leaves every such record, purged or not,
\* where it is.
C6_ExpiredOtpFails ==
    /\ [](\A i \in DOMAIN password_resets :
            password_resets[i].expires_at = password_resets[i].created_at + OTP_EXPIRE_MINUTES)
    /\ [][Handled("validate") =>
            /\ resp'.success =>
                  \E i \in DOMAIN password_resets :
                      /\ password_resets[i].user_id = resp'.email
                      /\ password_resets[i].otp = resp'.otp
                      /\ password_resets[i].expires_at >= now
            /\ (\A i \in DOMAIN password_resets :
                    (password_resets[i].user_id = resp'.email /\ password_resets[i].otp = resp'.otp)
                    => password_resets[i].expires_at < now)
                  => /\ ~resp'.success
                     /\ resp'.message = "Invalid or expired OTP"
                     /\ password_resets' = password_resets
            /\ \A i \in DOMAIN password_resets :
                    password_resets[i].expires_at < now
                    => Copies(password_resets', password_resets[i])
                         = Copies(password_resets, password_resets[i])]_vars

\* C6 witness: the right email and code were refused while the record, run out
\* but not yet purged, is still in the store
C6_Witness ==
    /\ resp.op = "validate"
    /\ ~resp.success
    /\ \E i \in DOMAIN password_resets :
          /\ password_resets[i].user_id = resp.email
          /\ password_resets[i].otp = resp.otp
          /\ password_resets[i].expires_at < now

-----------------------------------------------------------------------------
\* role of the registered user with this email, Nobody when there is none
RoleOf(email) ==
    IF get_user_by_email(email) = 0 THEN Nobody
    ELSE users[get_user_by_email(email)].role

\* the task with this id as the store holds it after the step
TaskAfter(task_id) ==
    tasks'[CHOOSE j \in DOMAIN tasks' : tasks'[j]._id = task_id]

StaysStored(task_id) == \E j \in DOMAIN tasks' : tasks'[j]._id = task_id

DevMustComplete == "Developer must complete the task before tester can update status"

\* C7: dev_status is set to pending by the first developer assignment and by
\* no later one: a side has a status exactly if it has an assignee; a task is
\* created with dev_status pending exactly if it has a developer; an assign or
\* adminUpdate step gives dev_status pending to a task whose dev_status was null
\* and that now has a developer, and leaves every non-null dev_status as it
\* was, whoever is assigned; no step makes a non-null dev_status null again.
\* The same for tester_status and assigned_to_tester.
C7_PendingOnFirstAssignmentOnly ==
    /\ [](\A i \in DOMAIN tasks :
            /\ tasks[i].dev_status = Nobody <=> tasks[i].assigned_to_dev = Nobody
            /\ tasks[i].tester_status = Nobody <=> tasks[i].assigned_to_tester = Nobody)
    /\ [][tasks' # tasks =>
           \A j \in DOMAIN tasks' :
              LET after == tasks'[j]
                  was == {i \in DOMAIN tasks : tasks[i]._id = after._id}
              IN IF was = {}
                   THEN /\ Handled("create")
                        /\ after.dev_status = initial_status(after.assigned_to_dev)
                        /\ after.tester_status = initial_status(after.assigned_to_tester)
                   ELSE \A i \in was :
                        LET before == tasks[i]
                        IN /\ before.dev_status # Nobody => after.dev_status # Nobody
                           /\ before.tester_status # Nobody => after.tester_status # Nobody
                           /\ (Handled("assign") \/ Handled("adminUpdate")) =>
                                 /\ after.dev_status =
                                       IF before.dev_status # Nobody THEN before.dev_status
                                       ELSE initial_status(after.assigned_to_dev)
                                 /\ after.tester_status =
                                       IF before.tester_status # Nobody
                                         THEN before.tester_status
                                         ELSE initial_status(after.assigned_to_tester)]_vars

\* C7 witness: an assignment answered with success left a task with a developer
\* and a tester who never send a request, the dev_status completed and the
\* tester_status tested: both sides were reassigned after the first assignees
\* had moved the statuses on, and neither status went back to pending
C7_Witness ==
    /\ resp.op \in {"assign", "adminUpdate"}
    /\ resp.status = 200
    /\ find_task(resp.task_id) # 0
    /\ LET task == tasks[find_task(resp.task_id)]
       IN /\ task.assigned_to_dev = "dev2@x.com"
          /\ task.dev_status = "completed"
          /\ task.assigned_to_tester = "ghost@x.com"
          /\ task.tester_status = "tested"

\* C8: whenever the tester assigned to a task asks for a tester_status, whatever
\* the value and however often the status was updated before, while the task's
\* dev_status is not completed, the answer is 403 "Developer must complete the
\* task before tester can update status" and no task changes.
C8_TesterWaitsForDeveloper ==
    [][\A i \in DOMAIN tasks :
         (/\ Handled("testerSetStatus")
          /\ resp'.task_id = tasks[i]._id
          /\ resp'.caller = tasks[i].assigned_to_tester
          /\ RoleOf(resp'.caller) = "tester"
          /\ tasks[i].dev_status # "completed")
         => /\ resp'.status = 403
            /\ resp'.detail = DevMustComplete
            /\ tasks' = tasks]_vars

\* C8 witness: the assigned tester, whose earlier update had gone through, was
\* refused after the developer moved the task back to in_progress
C8_Witness ==
    /\ resp.op = "testerSetStatus"
    /\ resp.detail = DevMustComplete
    /\ find_task(resp.task_id) # 0
    /\ LET task == tasks[find_task(resp.task_id)]
       IN /\ task.assigned_to_tester = resp.caller
          /\ task.tester_status \in {"tested", "closed"}
          /\ task.dev_status = "in_progress"

\* C9 (as claimed): assign writes only validated assignees: when an assign step
\* changes a task's assigned_to_dev, the new developer is a registered user
\* with role developer, and when it changes assigned_to_tester, the new tester
\* is a registered user with role tester.
C9_AssignValidatesAssignees ==
    [][\A i \in DOMAIN tasks :
         (Handled("assign") /\ StaysStored(tasks[i]._id)) =>
            LET before == tasks[i]
                after == TaskAfter(tasks[i]._id)
            IN /\ after.assigned_to_dev # before.assigned_to_dev
                    => RoleOf(after.assigned_to_dev) = "developer"
               /\ after.assigned_to_tester # before.assigned_to_tester
                    => RoleOf(after.assigned_to_tester) = "tester"]_vars

\* C10 (as claimed): a registration is accepted only if the password meets the
\* strength policy (at least 8 characters, an uppercase letter, a lowercase
\* letter, a digit and a special character).
C10_RegistrationEnforcesStrength ==
    (resp.op = "register" /\ resp.success) => validate_password_strength(resp.password)[1]

-----------------------------------------------------------------------------
\* C11: a successful change_password stores the hash of the new password on
\* the user, records password_changed_at as the time of the request and sets
\* locked_until to null, whatever locked_until was before (null, past or
\* future); it changes nothing else of the user and no other user.
C11_ResetLiftsAnyLock ==
    [][(Handled("change_password") /\ resp'.success) =>
         LET uid == get_user_by_email(resp'.email)
         IN /\ uid # 0
            /\ verify_password(resp'.password, users'[uid].password)
            /\ users'[uid].password_changed_at = now
            /\ users'[uid].locked_until = Null
            /\ users'[uid].email = users[uid].email
            /\ users'[uid].role = users[uid].role
            /\ \A other \in DOMAIN users : other # uid => users'[other] = users[other]
            /\ DOMAIN users' = DOMAIN users]_vars

\* C11 witness: a password was changed while the account's lock was still
\* running, and the lock is gone
C11_Witness ==
    /\ resp.op = "change_password"
    /\ resp.success
    /\ resp.lock_before > now
    /\ users[get_user_by_email(resp.email)].locked_until = Null
    /\ users[get_user_by_email(resp.email)].password_changed_at = now

-----------------------------------------------------------------------------
\* the task passes every filter the caller supplied
MatchesFilters(task, filters) ==
    \A f \in FilterFields : filters[f] # Nobody => task[f] = filters[f]

\* C12 (as claimed): a developer (tester) who lists tasks gets exactly the
\* tasks that pass every supplied filter and are assigned to the caller as
\* developer (tester); a supplied assignee filter naming someone else yields
\* no tasks.
C12_NarrowingIntersectsFilters ==
    (resp.op = "list" /\ resp.status = 200) =>
        LET role == RoleOf(resp.caller)
            mine(task) == CASE role = "developer" -> task.assigned_to_dev = resp.caller
                            [] role = "tester" -> task.assigned_to_tester = resp.caller
                            [] OTHER -> TRUE
        IN resp.result =
             {tasks[i]._id : i \in {j \in DOMAIN tasks :
                                      MatchesFilters(tasks[j], resp.filters) /\ mine(tasks[j])}}

-----------------------------------------------------------------------------
\* C13: in every reachable state a task's dev_status is non-null exactly if
\* the task has had a developer: it is non-null exactly if assigned_to_dev is,
\* and no step takes a developer, or a non-null dev_status, away from a task
\* that stays in the store.  The same for tester_status and assigned_to_tester.
C13_StatusIffEverAssigned ==
    /\ [](\A i \in DOMAIN tasks :
            /\ (tasks[i].dev_status # Nobody) = (tasks[i].assigned_to_dev # Nobody)
            /\ (tasks[i].tester_status # Nobody) = (tasks[i].assigned_to_tester # Nobody)
            /\ tasks[i].dev_status \in DevStatus \cup {Nobody}
            /\ tasks[i].tester_status \in TesterStatus \cup {Nobody})
    /\ [][tasks' # tasks =>
           \A i \in DOMAIN tasks, j \in DOMAIN tasks' :
              tasks'[j]._id = tasks[i]._id =>
                 /\ tasks[i].assigned_to_dev # Nobody => tasks'[j].assigned_to_dev # Nobody
                 /\ tasks[i].dev_status # Nobody => tasks'[j].dev_status # Nobody
                 /\ tasks[i].assigned_to_tester # Nobody
                       => tasks'[j].assigned_to_tester # Nobody
                 /\ tasks[i].tester_status # Nobody => tasks'[j].tester_status # Nobody]_vars

\* C13 witness: a task whose developer was replaced after work began has a
\* dev_status, and, never having had a tester, no tester_status
C13_Witness ==
    \E i \in DOMAIN tasks :
        /\ tasks[i].assigned_to_dev = "dev2@x.com"
        /\ tasks[i].dev_status = "in_progress"
        /\ tasks[i].assigned_to_tester = Nobody
        /\ tasks[i].tester_status = Nobody

-----------------------------------------------------------------------------
\* C14 (as claimed): under any interleaving of task operations, every step
\* that changes a task's tester_status from pending to tested or closed is
\* taken while the task's stored dev_status is completed.
C14_TesterMovesOnlyAfterCompletion ==
    [][\A i \in DOMAIN tasks, j \in DOMAIN tasks' :
         (/\ tasks'[j]._id = tasks[i]._id
          /\ tasks[i].tester_status = "pending"
          /\ tasks'[j].tester_status \in {"tested", "closed"})
         => tasks[i].dev_status = "completed"]_vars

-----------------------------------------------------------------------------
\* s is a prefix of t
IsPrefix(s, t) == Len(s) <= Len(t) /\ SubSeq(t, 1, Len(s)) = s

\* C15 (as claimed): remarks are append-only: across every operation on a task
\* the remarks before it are a prefix of the remarks after it.
C15_RemarksAppendOnly ==
    [][\A i \in DOMAIN tasks, j \in DOMAIN tasks' :
         tasks'[j]._id = tasks[i]._id => IsPrefix(tasks[i].remarks, tasks'[j].remarks)]_vars

-----------------------------------------------------------------------------
\* a request in flight was written in this step
Written(op) == Len(inflight') < Len(inflight) /\ resp'.op = op

\* the entries an append request stores: its texts in input order, each tagged
\* with the side, the caller and the time the handler read the clock
ExpectedEntries(r) ==
    [k \in DOMAIN r.remarks |->
        [tag |-> IF r.op = "developerAppendRemarks" THEN "DEV" ELSE "TESTER",
         author |-> r.caller, at |-> r.at, text |-> r.remarks[k]]]

\* C16: in any interleaving of the developer's and the tester's appendRemarks
\* calls, the write of a call puts the call's remarks, in input order and
\* contiguously, after all remarks stored at that moment: the remarks after
\* the write are the remarks before it followed by the call's entries, with
\* nothing reordered, merged or dropped as a duplicate; no other step of these
\* calls changes the remarks.
C16_AppendsKeepInsertionOrder ==
    [][/\ (Written("developerAppendRemarks") \/ Written("testerAppendRemarks")) =>
            \A i \in DOMAIN tasks :
               tasks'[i].remarks =
                  IF tasks[i]._id = resp'.task_id /\ resp'.status = 200
                    THEN tasks[i].remarks \o ExpectedEntries(resp')
                    ELSE tasks[i].remarks
       /\ Len(inflight') >= Len(inflight) => tasks' = tasks]_vars

\* C16 witness: the developer's call with two texts was written while a call
\* of the tester was between its read and its write; its entries follow, in
\* input order, an equal entry that was already stored
C16_Witness ==
    /\ resp.op = "developerAppendRemarks"
    /\ resp.status = 200
    /\ resp.remarks = <<"x", "y">>
    /\ \E k \in DOMAIN inflight : inflight[k].op = "testerAppendRemarks"
    /\ Len(tasks[1].remarks) = 3
    /\ tasks[1].remarks[1] = tasks[1].remarks[2]
    /\ tasks[1].remarks[2].text = "x"
    /\ tasks[1].remarks[3].text = "y"
    /\ tasks[1].remarks[3].tag = "DEV"

-----------------------------------------------------------------------------
\* the ledger holds the token and every entry holding it is marked expired
LoggedOut(token) ==
    /\ \E i \in DOMAIN login_attempts : login_attempts[i].token = token
    /\ \A i \in DOMAIN login_attempts :
          login_attempts[i].token = token => login_attempts[i].expired = "true"

\* C17: logout does not revoke a token for verification: verify accepts a
\* token exactly if it was signed with the secret and its exp claim has not
\* passed, whatever the ledger says, so a logged-out token is accepted until
\* its exp; verify changes nothing, and only logout ever changes an entry's
\* expired flag.
C17_LogoutDoesNotRevoke ==
    /\ [](resp.op = "verify" =>
            resp.success = (signature_valid(resp.token) /\ now < resp.token.exp))
    /\ [][/\ Handled("verify") => login_attempts' = login_attempts
          /\ (\E i \in DOMAIN login_attempts :
                 login_attempts'[i].expired # login_attempts[i].expired)
               => Handled("logout")]_vars

\* C17 witness: a token whose every ledger entry was marked expired by logout
\* was accepted by verify
C17_Witness ==
    /\ resp.op = "verify"
    /\ resp.success
    /\ LoggedOut(resp.token)

-----------------------------------------------------------------------------
DeveloperOps == {"developerSetStatus", "developerAppendRemarks"}
TesterOps == {"testerSetStatus", "testerAppendRemarks"}

\* the answered request changed a task only as its assignee; a caller among
\* `refused` who is not the assignee got the error `detail`, the task unchanged
OnlyAssignee(ops, assignee(_), refused(_), detail) ==
    \A op \in ops :
       Handled(op) =>
          LET i == find_task(resp'.task_id)
          IN /\ tasks' # tasks => i # 0 /\ assignee(tasks[i]) = resp'.caller
             /\ (i # 0 /\ assignee(tasks[i]) # resp'.caller /\ refused(resp'.caller))
                  => /\ resp'.status = 403
                     /\ resp'.detail = detail
                     /\ tasks' = tasks

AssignedDev(task) == task.assigned_to_dev
AssignedTester(task) == task.assigned_to_tester
AnyCaller(email) == TRUE
HoldsDeveloper(email) == RoleOf(email) = "developer"
HoldsTester(email) == RoleOf(email) = "tester"

-----------------------------------------------------------------------------
-----------------------------------------------------------------------------
\* C20: assign called with both developer and tester null on a stored task
\* is answered 200 without error and leaves every task as stored, updated_at
\* included, whenever it is called.
C20_AssignNothingChangesNothing ==
    [][\A c \in Assigning, id \in TaskIdChoices :
          (assign_task(c, id, Nobody, Nobody) /\ find_task(id) # 0)
             => /\ resp'.status = 200
                /\ tasks' = tasks]_vars

\* C20 witness: an assign was answered 200 at a time after the task's last
\* write (any assign that writes stamps updated_at with the time of the call),
\* the task having been assigned earlier
C20_Witness ==
    /\ resp.op = "assign"
    /\ resp.status = 200
    /\ \E i \in DOMAIN tasks :
          /\ tasks[i]._id = resp.task_id
          /\ tasks[i].updated_at < now
          /\ tasks[i].created_at < tasks[i].updated_at
          /\ tasks[i].assigned_to_tester = "qa@x.com"

-----------------------------------------------------------------------------
\* C21: a requestReset whose dispatch fails answers "Failed to send OTP" and
\* its record is not rolled back: the store then holds the unexpired records
\* it held plus the new one (this email, expiry 10 minutes from now); and the
\* record validates like any other, validate succeeding exactly while an
\* unexpired record with the email and code is stored.
C21_UnsentOtpStaysValid ==
    [][/\ (Handled("request_reset") /\ ~resp'.success)
          => /\ resp'.message = "Failed to send OTP"
             /\ \E c \in OtpCodes :
                   password_resets' =
                      Append(cleanup_expired_otps(password_resets),
                             [user_id |-> resp'.email, otp |-> c,
                              expires_at |-> now + OTP_EXPIRE_MINUTES, created_at |-> now])
       /\ Handled("validate") => resp'.success = (LiveOtps(resp'.email, resp'.otp) # {})]_vars

\* C21 witness: a code requested for the email the notifier never reaches was
\* validated, later than it was requested
C21_Witness ==
    /\ resp.op = "validate"
    /\ resp.success
    /\ ~Reached(resp.email)
    /\ now > 0

-----------------------------------------------------------------------------
\* C22: the ledger is an audit trail: no step removes or moves an entry;
\* an entry that a step changes is a successful one still as login wrote it
\* (not expired, no logout_time), the step is a logout, and the change is
\* exactly expired = true and logout_time = the time of the logout; so a
\* failed entry is never changed and a successful one at most once.
C22_LedgerIsAuditTrail ==
    /\ [](\A i \in DOMAIN login_attempts :
            (login_attempts[i].expired = "true") = (login_attempts[i].logout_time # Null))
    /\ [][/\ Len(login_attempts') >= Len(login_attempts)
          /\ \A i \in DOMAIN login_attempts :
                login_attempts'[i] # login_attempts[i]
                => /\ Handled("logout")
                   /\ login_attempts[i].success
                   /\ login_attempts[i].expired = "false"
                   /\ login_attempts[i].logout_time = Null
                   /\ login_attempts'[i] =
                         [login_attempts[i] EXCEPT !.expired = "true", !.logout_time = now]]_vars

\* C22 witness: a logout was refused, later than the logout that marked the
\* token's entry, on a ledger that also holds a failed entry
C22_Witness ==
    /\ resp.op = "logout"
    /\ ~resp.success
    /\ \E i \in DOMAIN login_attempts :
          /\ login_attempts[i].token = resp.token
          /\ login_attempts[i].expired = "true"
          /\ login_attempts[i].logout_time < now
    /\ \E i \in DOMAIN login_attempts : ~login_attempts[i].success

-----------------------------------------------------------------------------
\* C23: email uniquely identifies a user: after any interleaving of register
\* calls the store holds at most one user record per email.
C23_OneUserPerEmail ==
    \A i, j \in DOMAIN users : users[i].email = users[j].email => i = j

-----------------------------------------------------------------------------
\* the password of the answered login is the user's password
RightPassword(r) ==
    verify_password(r.password, users[get_user_by_email(r.email)].password)

\* C24: the lockout check precedes password verification: a login that finds
\* the user's five most recent attempts all failed, the account not already
\* under a running lock, sets locked_until = now + 2 hours and is denied as
\* locked whether or not its password is right, without verifying the password
\* and without appending a ledger entry.
C24_LockoutCheckBeforePassword ==
    [][\A uid \in DOMAIN users, p \in {Weak111x, Weak1} :
         (/\ Handled("login")
          /\ resp'.email = users[uid].email
          /\ resp'.password = p
          /\ LastFiveAllFailed(uid)
          /\ ~is_locked(users[uid]))
         => /\ Visible(resp') = Visible(AccountLockedNow)
            /\ ~resp'.pw_checked
            /\ users' = [users EXCEPT ![uid].locked_until = now + LOCK_HOURS * MinutesPerHour]
            /\ login_attempts' = login_attempts]_vars

\* C24 witness: a login with the right password, made after five failures,
\* set the lock to its own time + 2h and was denied
C24_Witness ==
    /\ DeniedAsLocked(resp)
    /\ RightPassword(resp)
    /\ ~resp.pw_checked
    /\ Len(HistoryOf(get_user_by_email(resp.email))) = LOCK_THRESHOLD
    /\ users[get_user_by_email(resp.email)].locked_until = now + LOCK_HOURS * MinutesPerHour

-----------------------------------------------------------------------------
\* C25: a login for a user whose locked_until is in the future is denied as
\* locked, the denial carrying that locked_until, and leaves the whole state
\* as it was: nothing is appended to the ledger, locked_until is not extended,
\* and the password is not verified.
C25_LockedLoginChangesNothing ==
    [][\A uid \in DOMAIN users :
         (/\ Handled("login")
          /\ resp'.email = users[uid].email
          /\ users[uid].locked_until # Null
          /\ now < users[uid].locked_until)
         => /\ DeniedAsLocked(resp')
            /\ resp'.until = users[uid].locked_until
            /\ ~resp'.pw_checked
            /\ UNCHANGED <<users, login_attempts, password_resets, tasks, next_task_id,
                           inflight>>]_vars

\* C25 witness: a login with the right password, made while a lock set
\* earlier was still running, was denied with that lock's expiry
C25_Witness ==
    /\ DeniedAsLocked(resp)
    /\ RightPassword(resp)
    /\ resp.until = users[get_user_by_email(resp.email)].locked_until
    /\ resp.until - LOCK_HOURS * MinutesPerHour < now
    /\ now < resp.until

-----------------------------------------------------------------------------
\* C26: after a lockout by five consecutive failures and a successful
\* changePassword, the next login with the new password is granted a session:
\* a login with the right password for a user whose five most recent
\* attempts failed, whose password was changed after them and who carries no
\* lock since, succeeds with a token.
C26_ResetLiftsLockoutInEffect ==
    [][\A uid \in DOMAIN users :
         (/\ Handled("login")
          /\ resp'.email = users[uid].email
          /\ verify_password(resp'.password, users[uid].password)
          /\ LastFiveAllFailed(uid)
          /\ users[uid].password_changed_at # Null
          /\ users[uid].locked_until = Null
          /\ \A i \in AttemptsOf(users[uid]) :
                login_attempts[i].timestamp <= users[uid].password_changed_at)
         => /\ resp'.success
            /\ resp'.token # NoToken]_vars

\* C27: a lockout is temporary: the first login made once locked_until has
\* passed is not denied as locked, leaves locked_until cleared and, with the
\* right password, is granted a session.
C27_LockoutRunsOut ==
    [][\A uid \in DOMAIN users :
         (/\ Handled("login")
          /\ resp'.email = users[uid].email
          /\ users[uid].locked_until # Null
          /\ now >= users[uid].locked_until)
         => /\ ~DeniedAsLocked(resp')
            /\ users'[uid].locked_until = Null
            /\ verify_password(resp'.password, users[uid].password) => resp'.success]_vars

-----------------------------------------------------------------------------
\* C28: with two login requests of a user running at a time, lockout sets in
\* at most one attempt late: never more than 6 failed attempts (the threshold
\* and one more) are recorded for the user, and once 5 are recorded no
\* request passes the lockout check any more: it is denied as locked.
C28_LockoutAtMostOneAttemptLate ==
    /\ [](\A uid \in DOMAIN users :
            Cardinality(AttemptsOf(users[uid]))
               <= LOCK_THRESHOLD + Cardinality(ConcurrentLogins) - 1)
    /\ [][\A uid \in DOMAIN users :
            Cardinality(AttemptsOf(users[uid])) >= LOCK_THRESHOLD
            => /\ Len(inflight') <= Len(inflight)
               /\ (Handled("login") /\ login_attempts' = login_attempts)
                     => DeniedAsLocked(resp')]_vars

\* C28 witness: six failures are recorded for the user, the last two by
\* requests that both read a window of four, and a later login is denied
C28_Witness ==
    /\ DeniedAsLocked(resp)
    /\ inflight = <<>>
    /\ LET uid == get_user_by_email(resp.email)
       IN Cardinality(AttemptsOf(users[uid])) = LOCK_THRESHOLD + 1

-----------------------------------------------------------------------------
\* C29: changePassword checks user-exists, then OTP-valid, then strength: for
\* an email with no user it fails "User not found" and consumes no OTP record;
\* for a user and a code with no unexpired record it answers validate's
\* failure "Invalid or expired OTP" and leaves the user (password hash,
\* locked_until) and the records as they were.
C29_ChangePasswordCheckOrder ==
    [][Handled("change_password") =>
         IF get_user_by_email(resp'.email) = 0
           THEN /\ <<resp'.success, resp'.message>> = <<FALSE, "User not found">>
                /\ password_resets' = password_resets
                /\ users' = users
         ELSE LiveOtps(resp'.email, resp'.otp) = {}
                => /\ <<resp'.success, resp'.message>>
                        = <<OtpInvalid.success, OtpInvalid.message>>
                   /\ users' = users
                   /\ password_resets' = password_resets]_vars

\* C29 witness: changePassword for an email without a user failed "User not
\* found" while the code it named is still stored and unexpired
C29_Witness ==
    /\ resp.op = "change_password"
    /\ resp.message = "User not found"
    /\ LiveOtps(resp.email, resp.otp) # {}

-----------------------------------------------------------------------------
\* changePassword was answered with a reason of the strength policy
FailedStrength(r) ==
    /\ r.op = "change_password"
    /\ ~r.success
    /\ r.message = validate_password_strength(r.password)[2]

\* C30 (as claimed): once a changePassword has failed the strength check, a
\* retry with the same code fails: no unexpired record with the email and the
\* code is left in the store.
C30_RetryAfterWeakPasswordFails ==
    FailedStrength(resp) => LiveOtps(resp.email, resp.otp) = {}

\* C30 (amended): a changePassword that passes the OTP validation and fails
\* the strength check leaves the user record as it was and has deleted
\* exactly one record with the email and the code; a changePassword with a
\* strong password fails with "Invalid or expired OTP" exactly when no
\* unexpired record with the email and the code is stored, so the retry fails
\* unless a further such record is stored.
C30_WeakPasswordConsumesOneRecord ==
    [][Handled("change_password") =>
         /\ FailedStrength(resp')
              => /\ users' = users
                 /\ Cardinality(LiveOtps(resp'.email, resp'.otp)) >= 1
                 /\ Len(password_resets') = Len(password_resets) - 1
                 /\ \E i \in LiveOtps(resp'.email, resp'.otp) :
                       password_resets' = RemoveAt(password_resets, i)
         /\ (get_user_by_email(resp'.email) # 0
              /\ validate_password_strength(resp'.password)[1])
              => (resp'.message = "Invalid or expired OTP")
                   = (LiveOtps(resp'.email, resp'.otp) = {})]_vars

\* C30 witness: after a weak password had used up the only record of the
\* code, the retry with a strong password failed "Invalid or expired OTP" and
\* the user still has the registered password
C30_Witness ==
    /\ resp.op = "change_password"
    /\ validate_password_strength(resp.password)[1]
    /\ resp.message = "Invalid or expired OTP"
    /\ password_resets = <<>>
    /\ users[get_user_by_email(resp.email)].password = hash_password(Weak111x)
    /\ users[get_user_by_email(resp.email)].locked_until # Null

-----------------------------------------------------------------------------
\* the stored record has not run out
Unexpired(record) == record.expires_at >= now

\* number of records with this email and code that have not run out
LiveCopies(records, email, otp) ==
    Cardinality({i \in DOMAIN records :
                    /\ records[i].user_id = email
                    /\ records[i].otp = otp
                    /\ Unexpired(records[i])})

\* C31: requestReset never invalidates earlier codes: it stores one new record
\* for the email, running out 10 minutes from now, and leaves every stored record
\* that has not run out in place, so the records of two requests made within 10
\* minutes coexist; a successful validate then consumes exactly one record of
\* its email and code and leaves every other unexpired record stored and valid.
C31_RequestKeepsEarlierCodes ==
    [][/\ Handled("request_reset") =>
            /\ password_resets' # <<>>
            /\ password_resets'[Len(password_resets')].user_id = resp'.email
            /\ password_resets'[Len(password_resets')].expires_at = now + OTP_EXPIRE_MINUTES
            /\ \A i \in DOMAIN password_resets :
                   Unexpired(password_resets[i])
                   => /\ Copies(password_resets', password_resets[i])
                           >= Copies(password_resets, password_resets[i])
                      /\ Copies(SubSeq(password_resets', 1, Len(password_resets') - 1),
                                password_resets[i])
                           = Copies(password_resets, password_resets[i])
                      /\ LiveCopies(password_resets', password_resets[i].user_id,
                                    password_resets[i].otp) >= 1
       /\ (Handled("validate") /\ resp'.success) =>
            /\ LiveCopies(password_resets', resp'.email, resp'.otp)
                 = LiveCopies(password_resets, resp'.email, resp'.otp) - 1
            /\ \A i \in DOMAIN password_resets :
                   (/\ Unexpired(password_resets[i])
                    /\ \/ password_resets[i].user_id # resp'.email
                       \/ password_resets[i].otp # resp'.otp)
                   => /\ Copies(password_resets', password_resets[i])
                           = Copies(password_resets, password_resets[i])
                      /\ LiveCopies(password_resets', password_resets[i].user_id,
                                    password_resets[i].otp) >= 1
      ]_vars

\* C31 witness: of two codes requested for one email within 10 minutes, one has
\* just been validated and the other, requested first, is still stored and valid
C31_Witness ==
    /\ resp.op = "validate"
    /\ resp.success
    /\ \E i \in DOMAIN password_resets :
          /\ password_resets[i].user_id = resp.email
          /\ password_resets[i].otp # resp.otp
          /\ password_resets[i].created_at < now
          /\ Unexpired(password_resets[i])
          /\ find_otp(resp.email, password_resets[i].otp) = i

-----------------------------------------------------------------------------
\* C32: two concurrent validate calls for a single stored record cannot both
\* succeed: every validate that answers with success has taken a record out of
\* the store, so one record yields one success.
C32_OneSuccessPerRecord ==
    [][(Written("validate") /\ resp'.success)
          => Len(password_resets') = Len(password_resets) - 1]_vars

-----------------------------------------------------------------------------
\* C33: developerSetStatus imposes no transition restriction: whatever a task's
\* dev_status and tester_status are, the developer it is assigned to can set
\* dev_status to each of pending, in_progress and completed, and the call
\* succeeds and leaves tester_status as it was.
C33_AnyDevStatusFromAnyState ==
    \A i \in DOMAIN tasks :
        RoleOf(tasks[i].assigned_to_dev) = "developer"
        => \A st \in DevStatus :
              ENABLED (/\ update_dev_status(Caller(tasks[i].assigned_to_dev), tasks[i]._id, st)
                       /\ resp'.status = 200
                       /\ tasks'[i].dev_status = st
                       /\ tasks'[i].tester_status = tasks[i].tester_status)

\* C33 witness: the developer has just moved a task that the tester has tested
\* or closed away from completed
C33_Witness ==
    /\ resp.op = "developerSetStatus"
    /\ resp.status = 200
    /\ \E i \in DOMAIN tasks :
          /\ tasks[i]._id = resp.task_id
          /\ tasks[i].tester_status \in {"tested", "closed"}
          /\ tasks[i].dev_status \in {"pending", "in_progress"}

-----------------------------------------------------------------------------
\* C34: under any interleaving of assign, adminUpdate and developerSetStatus
\* on one task, the write of an assign or an adminUpdate never turns a
\* dev_status that is in_progress or completed into pending.
C34_AdvancedStatusNotReset ==
    [][(Written("assign") \/ Written("adminUpdate"))
          => \A i \in DOMAIN tasks :
                (tasks[i]._id = resp'.task_id
                 /\ tasks[i].dev_status \in {"in_progress", "completed"})
                => TaskAfter(tasks[i]._id).dev_status # "pending"]_vars

-----------------------------------------------------------------------------
\* C35: every successful login records a ledger entry whose token differs from
\* the token of every other ledger entry, so that a token names one session.
C35_TokenNamesOneSession ==
    \A i, j \in DOMAIN login_attempts :
        (i # j /\ login_attempts[i].token # NoToken)
        => login_attempts[i].token # login_attempts[j].token

-----------------------------------------------------------------------------
\* the email of the user a token was issued to
HolderOf(token) == users[token.user_id.id].email

\* the request got past the assignee check of the operation
PassedAssigneeCheck(r) ==
    /\ r.status # 500
    /\ r.detail \notin {"Task not assigned to this developer",
                         "Task not assigned to this tester"}

\* C36: the identity verify yields from a session token is enough to authorize
\* the caller in the task workflow: a developer who logged in and is the task's
\* assigned_to_dev passes the assignee check of developerSetStatus with the
\* token from that login, and a tester that of testerSetStatus.
C36_TokenIdentityAuthorizes ==
    [][\A t \in IssuedTokens, i \in DOMAIN tasks :
          decode_jwt_token(t).success
          => /\ \A st \in DevStatus :
                   (/\ t.role = "developer"
                    /\ HolderOf(t) = tasks[i].assigned_to_dev
                    /\ update_dev_status_route(t, tasks[i]._id, st))
                   => PassedAssigneeCheck(resp')
             /\ \A st \in TesterStatus :
                   (/\ t.role = "tester"
                    /\ HolderOf(t) = tasks[i].assigned_to_tester
                    /\ update_test_status_route(t, tasks[i]._id, st, <<Nobody>>))
                   => PassedAssigneeCheck(resp')]_vars

=============================================================================
